---- MODULE Spec2Model ----
(***************************************************************************)
(* A byte-level model of the WAV container decoder (decoder.go, gsm.go)   *)
(* and encoder of CWBudde/wav.                                *)
(*                                                                         *)
(* A container is a sequence of bytes (naturals below 256).  The decoder   *)
(* session is the record dec, read through the cursor dec.pos of its       *)
(* io.ReadSeeker; the encoder session is the record enc, whose sink is     *)
(* the byte sequence enc.out with the write cursor enc.wpos.  Every Go     *)
(* method is an operator from the session record to the session record    *)
(* after the call (plus what the call returns), and an action applies it.  *)
(***************************************************************************)
EXTENDS Integers, Sequences, FiniteSets, TLC

VARIABLES file, dec, ret, streamed, phase, enc, eret, appended, closed, calls, heap, calc

vars == <<file, dec, ret, streamed, phase, enc, eret, appended, closed, calls, heap, calc>>

-----------------------------------------------------------------------------
(* Bounds of the model                                                     *)

\* longest payload of a non-audio chunk placed in a container
MaxPayload == 3
\* largest number of bytes cut off the end of a container
MaxTruncate == 1
\* largest buffer handed to PCMBuffer for the uncompressed formats
MaxBuf == 3
\* largest number of calls (Write, WriteFrame, Close) of an encoder session
MaxCalls == 3

-----------------------------------------------------------------------------
(* Bytes, little-endian integers, chunk identifiers                        *)

Nil == [isNil |-> TRUE]

Min(a, b) == IF a < b THEN a ELSE b
Max(a, b) == IF a > b THEN a ELSE b

\* the position of the leading bit of a positive integer
RECURSIVE Log2(_)
Log2(n) == IF n <= 1 THEN 0 ELSE 1 + Log2(n \div 2)

Take(s, n) == SubSeq(s, 1, Min(n, Len(s)))
Drop(s, n) == SubSeq(s, n + 1, Len(s))
\* the bytes s[off .. off+n) of a 0-based offset, cut at the end of s
Slice(s, off, n) == SubSeq(s, off + 1, Min(off + n, Len(s)))

LE16(n) == <<n % 256, (n \div 256) % 256>>
\* of a negative n these are the bytes of n + 2^32, the way uint32 wraps
LE32(n) == <<n % 256, (n \div 256) % 256, (n \div 65536) % 256, (n \div 16777216) % 256>>
\* the little-endian value of a byte sequence; absent bytes read as 0
RECURSIVE LEVal(_)
LEVal(b) == IF b = <<>> THEN 0 ELSE b[1] + 256 * LEVal(Tail(b))
\* binary.LittleEndian.Uint16 / Uint32 over a scratch buffer of n bytes of
\* which only Len(b) were filled: the others keep what they held (stale)
PadTo(b, n, stale) == b \o SubSeq(stale, Len(b) + 1, n)

\* the element of a one-element set
The(S) == CHOOSE x \in S : TRUE
\* body applied to the value of v: v is computed once, then named
Let(v, body(_)) == The({body(x) : x \in {v}})

RiffID == <<82, 73, 70, 70>>
RifxID == <<82, 73, 70, 88>>
WavFormatID == <<87, 65, 86, 69>>
\* a form type other than WAVE ("AVI ")
AviFormatID == <<65, 86, 73, 32>>
FmtID == <<102, 109, 116, 32>>
DataFormatID == <<100, 97, 116, 97>>
CIDFact == <<102, 97, 99, 116>>
CIDList == <<76, 73, 83, 84>>
CIDSmpl == <<115, 109, 112, 108>>
CIDCue == <<99, 117, 101, 32>>
CIDBext == <<98, 101, 120, 116>>
CIDCart == <<99, 97, 114, 116>>
CIDInfo == <<73, 78, 70, 79>>
markerIART == <<73, 65, 82, 84>>
\* two identifiers no handler knows
CIDJunk == <<74, 85, 78, 75>>
CIDXtra == <<120, 116, 114, 97>>

wavFormatPCM == 1
wavFormatIEEEFloat == 3
wavFormatALaw == 6
wavFormatMuLaw == 7
wavFormatGSM610 == 49
wavFormatTrueSpeech == 34
wavFormatVoxware == 6172
wavFormatExtensible == 65534

gsmBlockSize == 65
gsmSamplesPerBlock == 320

-----------------------------------------------------------------------------
(* Errors: the chain of wrapped messages, outermost first, and the chunk   *)
(* identifier or number the message prints                                 *)

NoErr == [msg |-> <<>>, arg |-> <<>>]
Err0(m) == [msg |-> <<m>>, arg |-> <<>>]
ErrArg(m, a) == [msg |-> <<m>>, arg |-> a]
Wrapf(m, e) == [msg |-> <<m>> \o e.msg, arg |-> e.arg]
ErrEOF == Err0("EOF")
ErrUnexpectedEOF == Err0("unexpected EOF")
\* errors.Is(e, io.EOF): io.EOF is at the root of the chain
IsEOF(e) == e.msg # <<>> /\ e.msg[Len(e.msg)] = "EOF"
\* errors.Is(e, ErrUnsupportedCompressedFormat)
IsUnsupportedCompressed(e) == e.msg # <<>> /\ e.msg[1] = "unsupported compressed audio format"
ErrPCMDataNotFound == Err0("PCM data not found")
ErrPCMChunkNotFound == Err0("PCM Chunk not found in audio file")

-----------------------------------------------------------------------------
(* The io.ReadSeeker of the decoder: a bytes.Reader or an *os.File over    *)
(* the container f with the cursor pos                                     *)

\* Read(p) with len(p) = n: what is there, at most n bytes; io.EOF at the end
ReaderRead(f, pos, n) ==
    IF pos >= Len(f)
    THEN [data |-> <<>>, err |-> ErrEOF, pos |-> pos]
    ELSE [data |-> Slice(f, pos, n), err |-> NoErr, pos |-> Min(pos + n, Len(f))]

\* io.ReadFull(r, p) with len(p) = n, as binary.Read uses it
ReadFull(f, pos, n) ==
    Let(Slice(f, pos, n), LAMBDA got :
        [data |-> got,
         err |-> IF Len(got) = n THEN NoErr
                 ELSE IF got = <<>> THEN ErrEOF ELSE ErrUnexpectedEOF,
         pos |-> pos + Len(got)])

\* riff.Parser.IDnSize: 4 bytes of identifier, 4 bytes of little-endian size
IDnSize(f, pos) ==
    Let(ReadFull(f, pos, 4), LAMBDA rid :
        IF rid.err # NoErr
        THEN [id |-> PadTo(rid.data, 4, <<0, 0, 0, 0>>), size |-> 0, err |-> rid.err, pos |-> rid.pos]
        ELSE Let(ReadFull(f, rid.pos, 4), LAMBDA rsz :
            IF rsz.err # NoErr
            THEN [id |-> rid.data, size |-> 0, err |-> rsz.err, pos |-> rsz.pos]
            ELSE [id |-> rid.data, size |-> LEVal(rsz.data), err |-> NoErr, pos |-> rsz.pos]))

\* the size a chunk walker gives a chunk: the declared size, made even
WordAlign(size) == IF size % 2 = 1 THEN size + 1 ELSE size

-----------------------------------------------------------------------------
(* riff.Chunk: ID, Size, Pos and the reader R.  lim is what an             *)
(* io.LimitReader around the stream still lets through; lim = -1 is the    *)
(* bare stream (the chunks riff.Parser.NextChunk hands out).  The stream   *)
(* cursor travels with the chunk record while a handler reads it.          *)

MkChunk(id, size, lim, pos) == [ID |-> id, Size |-> size, Pos |-> 0, lim |-> lim, pos |-> pos]

\* riff.Parser.NextChunk over the bare stream
ParserNextChunk(f, pos) ==
    Let(IDnSize(f, pos), LAMBDA h :
        IF h.err # NoErr
        THEN [chunk |-> Nil, err |-> h.err, pos |-> h.pos]
        ELSE [chunk |-> MkChunk(h.id, WordAlign(h.size), -1, h.pos), err |-> NoErr, pos |-> h.pos])

\* one Read(p), len(p) = n, on the chunk's reader R
ChunkRRead(f, ch, n) ==
    IF ch.lim = -1
    THEN Let(ReaderRead(f, ch.pos, n), LAMBDA r :
             [data |-> r.data, err |-> r.err, ch |-> [ch EXCEPT !.pos = r.pos]])
    ELSE IF ch.lim <= 0
    THEN [data |-> <<>>, err |-> ErrEOF, ch |-> ch]
    ELSE Let(ReaderRead(f, ch.pos, Min(n, ch.lim)), LAMBDA r :
             [data |-> r.data, err |-> r.err,
              ch |-> [ch EXCEPT !.pos = r.pos, !.lim = ch.lim - Len(r.data)]])

\* riff.Chunk.Read: R.Read and the count added to Pos
ChunkRead(f, ch, n) ==
    Let(ChunkRRead(f, ch, n), LAMBDA r :
        [data |-> r.data, err |-> r.err, ch |-> [r.ch EXCEPT !.Pos = ch.Pos + Len(r.data)]])

\* io.ReadFull on the chunk's reader R (n > 0)
ChunkRReadFull(f, ch, n) ==
    Let(Slice(f, ch.pos, IF ch.lim = -1 THEN n ELSE Min(n, Max(ch.lim, 0))), LAMBDA got :
        [data |-> got,
         err |-> IF Len(got) = n THEN NoErr
                 ELSE IF got = <<>> THEN ErrEOF ELSE ErrUnexpectedEOF,
         ch |-> [ch EXCEPT !.pos = ch.pos + Len(got),
                           !.lim = IF ch.lim = -1 THEN -1 ELSE ch.lim - Len(got)]])

\* riff.Chunk.ReadLE of a value of n bytes: io.EOF once Pos has reached
\* Size; else Pos moves by n whatever the read gives
ChunkReadLE(f, ch, n) ==
    IF ch.Size <= ch.Pos
    THEN [data |-> <<>>, err |-> ErrEOF, ch |-> ch]
    ELSE Let(ChunkRReadFull(f, ch, n), LAMBDA r :
             [data |-> r.data, err |-> r.err, ch |-> [r.ch EXCEPT !.Pos = ch.Pos + n]])

\* riff.Chunk.Drain: discard the Size - Pos bytes not yet read
ChunkDrain(f, ch) ==
    IF ch.Size - ch.Pos <= 0 THEN ch
    ELSE ChunkRReadFull(f, ch, ch.Size - ch.Pos).ch

\* io.ReadAll(chunk): Read until io.EOF, everything the reader lets through
ChunkReadAll(f, ch) ==
    Let(Slice(f, ch.pos, IF ch.lim = -1 THEN Len(f) ELSE Max(ch.lim, 0)), LAMBDA got :
        [data |-> got,
         ch |-> [ch EXCEPT !.pos = ch.pos + Len(got),
                           !.Pos = ch.Pos + Len(got),
                           !.lim = IF ch.lim = -1 THEN -1 ELSE ch.lim - Len(got)]])

-----------------------------------------------------------------------------
(* FmtChunk and the decoding of the fmt chunk                              *)

subFormatGUIDTail == <<0, 0, 16, 0, 128, 0, 0, 170, 0, 56, 155, 113>>
makeSubFormatGUID(formatTag) == LE32(formatTag) \o subFormatGUIDTail

\* FmtChunk.EffectiveFormatTag; fc is Nil or a FmtChunk
EffectiveFormatTag(fc) ==
    IF fc = Nil THEN 0
    ELSE IF fc.FormatTag = wavFormatExtensible /\ fc.Extensible # Nil
    THEN LEVal(Take(fc.Extensible.SubFormat, 2))
    ELSE fc.FormatTag

\* the six ReadLE calls of the 16 base bytes: widths in wire order
FmtFieldWidths == <<2, 2, 4, 4, 2, 2>>
FmtFieldErrors == <<"failed to read wav format", "failed to read channels",
                    "failed to read sample rate", "failed to read avg bytes/sec",
                    "failed to read block align", "failed to read bit depth">>

RECURSIVE ReadFmtFields(_, _, _, _)
ReadFmtFields(f, ch, i, vals) ==
    IF i > Len(FmtFieldWidths)
    THEN [vals |-> vals, err |-> NoErr, ch |-> ch]
    ELSE Let(ChunkReadLE(f, ch, FmtFieldWidths[i]), LAMBDA r :
             IF r.err # NoErr
             THEN [vals |-> vals, err |-> Wrapf(FmtFieldErrors[i], r.err), ch |-> r.ch]
             ELSE Let(Append(vals, LEVal(r.data)), LAMBDA vals2 :
                      ReadFmtFields(f, r.ch, i + 1, vals2)))

\* the FmtChunk of the 16 base bytes
BaseFmtChunk(v) ==
    [FormatTag |-> v[1], NumChannels |-> v[2], SampleRate |-> v[3],
     AvgBytesPerSec |-> v[4], BlockAlign |-> v[5], BitsPerSample |-> v[6],
     ExtraData |-> <<>>, Extensible |-> Nil]

\* the WAVE_FORMAT_EXTENSIBLE fields of an extension of 22 bytes or more
ExtensibleOf(x) ==
    [ValidBitsPerSample |-> LEVal(Slice(x, 0, 2)),
     ChannelMask |-> LEVal(Slice(x, 2, 4)),
     SubFormat |-> Slice(x, 6, 16),
     ExtraData |-> Drop(x, 22)]

\* decodeWavHeaderChunk: the FmtChunk, and the format tag left in the parser
decodeWavHeaderChunk(f, ch0) ==
    Let(ReadFmtFields(f, ch0, 1, <<>>), LAMBDA base :
    IF base.err # NoErr
    THEN [fmt |-> Nil, tag |-> 0, err |-> base.err, ch |-> base.ch]
    ELSE Let(BaseFmtChunk(base.vals), LAMBDA fc0 :
    IF ch0.Size <= 16
    THEN [fmt |-> fc0, tag |-> fc0.FormatTag, err |-> NoErr, ch |-> base.ch]
    ELSE Let(ChunkReadLE(f, base.ch, 2), LAMBDA rs :
    IF rs.err # NoErr
    THEN [fmt |-> Nil, tag |-> fc0.FormatTag,
          err |-> Wrapf("failed to read fmt extension size", rs.err), ch |-> rs.ch]
    ELSE Let(IF LEVal(rs.data) > 0 THEN ChunkReadLE(f, rs.ch, LEVal(rs.data))
             ELSE [data |-> <<>>, err |-> NoErr, ch |-> rs.ch], LAMBDA rx :
    IF rx.err # NoErr
    THEN [fmt |-> Nil, tag |-> fc0.FormatTag,
          err |-> Wrapf("failed to read fmt extension data", rx.err), ch |-> rx.ch]
    ELSE IF fc0.FormatTag # wavFormatExtensible \/ LEVal(rs.data) < 22
    THEN [fmt |-> [fc0 EXCEPT !.ExtraData = rx.data], tag |-> fc0.FormatTag, err |-> NoErr,
          ch |-> ChunkDrain(f, rx.ch)]
    ELSE Let([fc0 EXCEPT !.ExtraData = rx.data, !.Extensible = ExtensibleOf(rx.data)], LAMBDA fc2 :
         [fmt |-> fc2, tag |-> EffectiveFormatTag(fc2), err |-> NoErr,
          ch |-> ChunkDrain(f, rx.ch)])))))

-----------------------------------------------------------------------------
(* The chunk registry and its handlers                                     *)

\* the identifiers the handlers of newDefaultChunkRegistry accept, in order
RegistryHandlers == <<CIDFact, CIDList, CIDSmpl, CIDCue, CIDBext, CIDCart>>

\* nullTermStr: the bytes before the first zero
RECURSIVE nullTermStr(_)
nullTermStr(b) ==
    IF b = <<>> \/ b[1] = 0 THEN <<>> ELSE <<b[1]>> \o nullTermStr(Tail(b))

\* the entry loop of DecodeListChunk over what is left of the chunk's bytes
RECURSIVE ListEntries(_, _, _)
ListEntries(buf, rem, md) ==
    IF rem <= 1 \/ buf = <<>> THEN [md |-> md, err |-> NoErr]
    ELSE IF Len(buf) < 8
    THEN [md |-> md, err |-> Wrapf("read sub header", ErrUnexpectedEOF)]
    ELSE IF Len(buf) = 8
    THEN [md |-> md, err |-> Wrapf("read sub header data", ErrEOF)]
    ELSE Let(LEVal(Slice(buf, 4, 4)), LAMBDA size :
         Let(PadTo(Slice(buf, 8, size), size, [i \in 1..size |-> 0]), LAMBDA val :
         Let(IF Take(buf, 4) = markerIART THEN [md EXCEPT !.Artist = nullTermStr(val)] ELSE md,
             LAMBDA md2 :
         Let(Drop(buf, 8 + size), LAMBDA rest :
             ListEntries(rest, rem - (size + 8), md2)))))

\* sniffListType: reads the 4-byte list type and puts it back in front of
\* a reader limited to the rest of the chunk
sniffListType(f, ch) ==
    IF ch.ID # CIDList \/ ch.Size < 4 THEN [err |-> NoErr, ch |-> ch]
    ELSE Let(ChunkRReadFull(f, ch, 4), LAMBDA r :
             IF r.err # NoErr
             THEN [err |-> Wrapf("failed to read LIST type", r.err), ch |-> r.ch]
             ELSE [err |-> NoErr,
                   ch |-> [ch EXCEPT !.lim = IF ch.lim = -1 THEN ch.Size ELSE Min(ch.lim, ch.Size)]])

\* factChunkHandler.Decode
DecodeFactChunk(f, d, ch) ==
    Let(ChunkReadLE(f, ch, 4), LAMBDA r :
        [d |-> IF r.err = NoErr THEN [d EXCEPT !.CompressedSamples = LEVal(r.data)] ELSE d,
         err |-> NoErr,
         ch |-> ChunkDrain(f, r.ch)])

\* the metadata object a handler fills: the decoder's, made if there is none
MetadataOf(d) == IF d.Metadata = Nil THEN [Artist |-> <<>>] ELSE d.Metadata

\* DecodeListChunk
DecodeListChunk(f, d, ch) ==
    Let(ChunkRReadFull(f, ch, ch.Size), LAMBDA r :
    Let([r.ch EXCEPT !.Pos = ch.Pos + Len(r.data)], LAMBDA ch1 :
        IF r.data = <<>>
        THEN [d |-> d, err |-> Wrapf("failed to read the INFO subchunk", ErrEOF), ch |-> ch1]
        ELSE IF PadTo(Take(r.data, 4), 4, <<0, 0, 0, 0>>) # CIDInfo
        THEN [d |-> d, err |-> NoErr, ch |-> ChunkDrain(f, ch1)]
        ELSE Let(ListEntries(Drop(r.data, 4), ch.Size - 4, MetadataOf(d)), LAMBDA e :
                 IF e.err # NoErr
                 THEN [d |-> [d EXCEPT !.Metadata = e.md], err |-> e.err, ch |-> ch1]
                 ELSE [d |-> [d EXCEPT !.Metadata = e.md], err |-> NoErr, ch |-> ChunkDrain(f, ch1)])))

\* the sampler, cue, broadcast and cart handlers: fixed-offset record
\* readers; what the container walk sees of them is that the chunk is
\* read whole and the metadata object exists afterwards
DecodeRecordChunk(f, d, ch) ==
    Let(ChunkRead(f, ch, ch.Size), LAMBDA r :
        [d |-> [d EXCEPT !.Metadata = MetadataOf(d)],
         err |-> NoErr,
         ch |-> ChunkDrain(f, r.ch)])

\* the handler of the registry that accepts the chunk (CanHandle)
HandlerDecode(f, d, ch) ==
    IF ch.ID = CIDFact THEN DecodeFactChunk(f, d, ch)
    ELSE IF ch.ID = CIDList THEN DecodeListChunk(f, d, ch)
    ELSE DecodeRecordChunk(f, d, ch)

\* ChunkRegistry.Decode: the first handler whose CanHandle accepts the chunk
RegistryDecode(f, d, ch) ==
    Let(sniffListType(f, ch), LAMBDA s :
        IF s.err # NoErr
        THEN [handled |-> FALSE, err |-> s.err, d |-> d, ch |-> s.ch]
        ELSE IF \A i \in 1..Len(RegistryHandlers) : RegistryHandlers[i] # ch.ID
        THEN [handled |-> FALSE, err |-> NoErr, d |-> d, ch |-> s.ch]
        ELSE Let(HandlerDecode(f, d, s.ch), LAMBDA h :
                 [handled |-> TRUE,
                  err |-> IF h.err # NoErr THEN Wrapf("chunk handler decode failed", h.err) ELSE NoErr,
                  d |-> h.d, ch |-> h.ch]))

\* Decoder.decodeHeaderChunkViaRegistry: only four identifiers are offered
\* to the registry while the fmt chunk is still being looked for
decodeHeaderChunkViaRegistry(f, d, ch) ==
    IF ch.ID \in {CIDList, CIDSmpl, CIDBext, CIDCart}
    THEN RegistryDecode(f, d, ch)
    ELSE [handled |-> FALSE, err |-> NoErr, d |-> d, ch |-> ch]

-----------------------------------------------------------------------------
(* The decoder session                                                     *)

\* riff.New(r): a parser that has read nothing
NewParser == [ID |-> <<0, 0, 0, 0>>, Size |-> 0, Format |-> <<0, 0, 0, 0>>]

\* NewDecoder(r): the stream is stored, nothing is read
NewDecoder ==
    [pos |-> 0, parser |-> NewParser,
     NumChans |-> 0, BitDepth |-> 0, SampleRate |-> 0, AvgBytesPerSec |-> 0,
     WavAudioFormat |-> 0, FmtChunk |-> Nil,
     err |-> NoErr, PCMSize |-> 0, pcmDataAccessed |-> FALSE, PCMChunk |-> Nil,
     Metadata |-> Nil, UnknownChunks |-> <<>>, CompressedSamples |-> 0,
     gsmDec |-> Nil, unknownChunkOrder |-> 0]

\* Decoder.Err: the cached error unless it is io.EOF
Err(d) == IF IsEOF(d.err) THEN NoErr ELSE d.err

\* the stream cursor is the decoder's; a chunk kept in the session (the
\* located data chunk) is stored without it
Stored(ch) == [ch EXCEPT !.pos = 0]
AtCursor(ch, d) == [ch EXCEPT !.pos = d.pos]

\* Decoder.processFmtChunk
processFmtChunk(f, d, ch, rewindBytes) ==
    Let(decodeWavHeaderChunk(f, ch), LAMBDA h :
        IF h.err # NoErr
        THEN [d |-> [d EXCEPT !.pos = h.ch.pos], err |-> Wrapf("failed to decode fmt chunk", h.err)]
        ELSE [d |-> [d EXCEPT !.FmtChunk = h.fmt,
                              !.NumChans = h.fmt.NumChannels,
                              !.BitDepth = h.fmt.BitsPerSample,
                              !.SampleRate = h.fmt.SampleRate,
                              !.WavAudioFormat = h.tag,
                              !.AvgBytesPerSec = h.fmt.AvgBytesPerSec,
                              !.pos = IF rewindBytes > 0 /\ h.ch.pos - (rewindBytes + ch.Size + 8) >= 0
                                      THEN h.ch.pos - (rewindBytes + ch.Size + 8)
                                      ELSE h.ch.pos],
              err |-> NoErr])

\* Decoder.processNonFmtChunk: a chunk met before the fmt chunk is decoded
\* by its handler or skipped; either way its bytes count for the rewind
processNonFmtChunk(f, d, ch) ==
    Let(decodeHeaderChunkViaRegistry(f, d, ch), LAMBDA h :
        IF h.handled
        THEN [d |-> [h.d EXCEPT !.pos = h.ch.pos], add |-> ch.Size + 8]
        ELSE [d |-> [h.d EXCEPT !.pos = Min(h.ch.pos + ch.Size, Max(Len(f), h.ch.pos))],
              add |-> ch.Size + 8])

\* the chunk loop of readHeaders; it ends by returning the session's d.err
RECURSIVE readHeadersLoop(_, _, _)
readHeadersLoop(f, d, rewindBytes) ==
    Let(ParserNextChunk(f, d.pos), LAMBDA n :
        IF n.err # NoErr
        THEN [d |-> [d EXCEPT !.pos = n.pos], err |-> d.err]
        ELSE IF n.chunk.ID = FmtID
        THEN Let(processFmtChunk(f, d, n.chunk, rewindBytes), LAMBDA p :
                 IF p.err # NoErr THEN p ELSE [d |-> p.d, err |-> p.d.err])
        ELSE Let(processNonFmtChunk(f, [d EXCEPT !.pos = n.pos], n.chunk), LAMBDA q :
             Let(rewindBytes + q.add, LAMBDA rewound :
                 readHeadersLoop(f, q.d, rewound))))

\* Decoder.readHeaders
readHeaders(f, d) ==
    IF d.NumChans > 0 THEN [d |-> d, err |-> NoErr]
    ELSE
    Let(IDnSize(f, d.pos), LAMBDA h :
        IF h.err # NoErr
        THEN [d |-> [d EXCEPT !.pos = h.pos], err |-> Wrapf("failed to read chunk ID and size", h.err)]
        ELSE IF h.id # RiffID
        THEN [d |-> [d EXCEPT !.pos = h.pos, !.parser.ID = h.id],
              err |-> ErrArg("format not supported", h.id)]
        ELSE
        Let(ReadFull(f, h.pos, 4), LAMBDA r :
            IF r.err # NoErr
            THEN [d |-> [d EXCEPT !.pos = r.pos, !.parser.ID = h.id, !.parser.Size = h.size],
                  err |-> Wrapf("failed to read format", r.err)]
            ELSE Let([d EXCEPT !.pos = r.pos, !.parser.ID = h.id, !.parser.Size = h.size,
                               !.parser.Format = r.data], LAMBDA d1 :
                     readHeadersLoop(f, d1, 0))))

\* Decoder.ReadInfo
ReadInfo(f, d) ==
    Let(readHeaders(f, d), LAMBDA h : [h.d EXCEPT !.err = h.err])

\* Decoder.NextChunk: the session after the call, the chunk and the error
NextChunk(f, d) ==
    Let(readHeaders(f, d), LAMBDA h :
        IF h.err # NoErr
        THEN [d |-> [h.d EXCEPT !.err = Wrapf("failed to read header", h.err)],
              chunk |-> Nil,
              err |-> Wrapf("failed to read header", h.err)]
        ELSE
        Let(IDnSize(f, h.d.pos), LAMBDA c :
            IF c.err # NoErr
            THEN [d |-> [h.d EXCEPT !.err = Wrapf("error reading chunk header", c.err), !.pos = c.pos],
                  chunk |-> Nil,
                  err |-> Wrapf("error reading chunk header", c.err)]
            ELSE [d |-> [h.d EXCEPT !.err = NoErr, !.pos = c.pos],
                  chunk |-> MkChunk(c.id, WordAlign(c.size), WordAlign(c.size), c.pos),
                  err |-> NoErr]))

\* the chunk loop of FwdToPCM
RECURSIVE FwdToPCMLoop(_, _)
FwdToPCMLoop(f, d) ==
    Let(NextChunk(f, d), LAMBDA n :
        IF n.err # NoErr THEN [d |-> n.d, err |-> n.err]
        ELSE IF n.chunk.ID = DataFormatID
        THEN [d |-> [n.d EXCEPT !.PCMSize = n.chunk.Size,
                                !.PCMChunk = Stored(n.chunk),
                                !.pcmDataAccessed = TRUE],
              err |-> NoErr]
        ELSE Let(RegistryDecode(f, n.d, n.chunk), LAMBDA h :
                 IF h.err # NoErr
                 THEN [d |-> [h.d EXCEPT !.err = h.err, !.pos = h.ch.pos], err |-> h.err]
                 ELSE Let(IF h.handled THEN [h.d EXCEPT !.pos = h.ch.pos]
                          ELSE [h.d EXCEPT !.pos = ChunkDrain(f, h.ch).pos], LAMBDA d2 :
                          FwdToPCMLoop(f, d2))))

\* Decoder.FwdToPCM
FwdToPCM(f, d) ==
    Let(ReadInfo(f, d), LAMBDA d1 :
        IF d1.err # NoErr THEN [d |-> d1, err |-> d1.err]
        ELSE FwdToPCMLoop(f, d1))

\* Decoder.captureUnknownChunk
captureUnknownChunk(f, d, ch, beforeData) ==
    Let(ChunkReadAll(f, ch), LAMBDA r :
        [d EXCEPT !.pos = ChunkDrain(f, r.ch).pos,
                  !.UnknownChunks = Append(@, [ID |-> ch.ID, Size |-> Len(r.data), Data |-> r.data,
                                               Order |-> d.unknownChunkOrder,
                                               BeforeData |-> beforeData])])

\* the chunk loop of ReadMetadata
RECURSIVE ReadMetadataLoop(_, _, _)
ReadMetadataLoop(f, d, seenData) ==
    Let(NextChunk(f, d), LAMBDA n :
        IF n.err # NoErr THEN n.d
        ELSE
        Let([n.d EXCEPT !.unknownChunkOrder = @ + 1], LAMBDA d1 :
            IF n.chunk.ID = DataFormatID
            THEN Let([d1 EXCEPT !.pos = ChunkDrain(f, n.chunk).pos], LAMBDA d2 :
                     ReadMetadataLoop(f, d2, TRUE))
            ELSE
            Let(RegistryDecode(f, d1, n.chunk), LAMBDA h :
            Let([h.d EXCEPT !.pos = h.ch.pos,
                            !.err = IF h.err # NoErr /\ ~IsEOF(h.err) THEN h.err ELSE @], LAMBDA d2 :
            Let(IF h.handled THEN d2 ELSE captureUnknownChunk(f, d2, h.ch, ~seenData), LAMBDA d3 :
                ReadMetadataLoop(f, d3, seenData))))))

\* ReadMetadata without the early return for metadata that is already set
ReadMetadataAlways(f, d) ==
    Let(ReadInfo(f, d), LAMBDA d1 :
        IF Err(d1) # NoErr THEN d1
        ELSE Let([d1 EXCEPT !.UnknownChunks = <<>>, !.unknownChunkOrder = 0], LAMBDA d2 :
                 ReadMetadataLoop(f, d2, d1.PCMChunk # Nil)))

\* Decoder.ReadMetadata
ReadMetadata(f, d) ==
    IF d.Metadata # Nil THEN d
    ELSE Let(ReadInfo(f, d), LAMBDA d1 :
             IF Err(d1) # NoErr THEN d1
             ELSE Let([d1 EXCEPT !.UnknownChunks = <<>>, !.unknownChunkOrder = 0], LAMBDA d2 :
                      ReadMetadataLoop(f, d2, d1.PCMChunk # Nil)))

-----------------------------------------------------------------------------
(* The sample codecs of the decoder.  A decoded sample is the exact        *)
(* quotient normalizePCMInt rounds to float32, written <<n, 255>> for      *)
(* n / 255 and <<n, e>> with e in {15, 23, 31} for n / 2^e.                *)

bytesPerSample(bitDepth) == (bitDepth - 1) \div 8 + 1

\* a check that knows TrueSpeech only
isUnsupportedTrueSpeechOnly(wavFormat) == wavFormat = wavFormatTrueSpeech

isUnsupportedCompressedFormat(wavFormat) == wavFormat \in {wavFormatTrueSpeech, wavFormatVoxware}

unsupportedCompressedFormatError(wavFormat) ==
    ErrArg("unsupported compressed audio format", <<wavFormat>>)

\* the quotient n / 2^e in lowest terms; 0 is <<0, 0>>
RECURSIVE Reduced(_)
Reduced(val) ==
    IF val[1] = 0 THEN <<0, 0>>
    ELSE IF val[2] > 0 /\ val[1] % 2 = 0 THEN Reduced(<<val[1] \div 2, val[2] - 1>>)
    ELSE val

\* n / d rounded to the nearest integer, a tie to the even one (d > 0)
RoundHalfEven(n, d) ==
    Let(n \div d, LAMBDA q :
    Let(n - (q * d), LAMBDA rem :
        IF 2 * rem < d THEN q
        ELSE IF 2 * rem > d THEN q + 1
        ELSE IF q % 2 = 0 THEN q ELSE q + 1))

\* the conversion float32(x) of a float64 quotient n / 2^e: exact when n in
\* lowest terms has at most 24 bits, else rounded to 24 bits
Float32Of(val) ==
    Let(Reduced(val), LAMBDA r :
    Let(IF r[1] < 0 THEN -r[1] ELSE r[1], LAMBDA a :
        IF a < 16777216 THEN val
        ELSE Let(Log2(a) - 23, LAMBDA shift :
                 Reduced(<<RoundHalfEven(r[1], 2 ^ shift), r[2] - shift>>))))

\* a normalization of 8-bit samples around 128: (sample - 128) / 128
normalizePCMIntCentered(sample, bitDepth) ==
    CASE bitDepth = 8 -> <<sample - 128, 7>>
      [] bitDepth = 16 -> <<sample, 15>>
      [] bitDepth = 24 -> <<sample, 23>>
      [] bitDepth = 32 -> Float32Of(<<sample, 31>>)
      [] OTHER -> <<0, 15>>

\* normalizePCMInt: (sample - 127.5) / 127.5 for 8 bits, sample / 2^(bits-1)
\* for 16, 24 and 32 bits, 0 for every other depth
normalizePCMInt(sample, bitDepth) ==
    CASE bitDepth = 8 -> <<2 * sample - 255, 255>>
      [] bitDepth = 16 -> <<sample, 15>>
      [] bitDepth = 24 -> <<sample, 23>>
      [] bitDepth = 32 -> Float32Of(<<sample, 31>>)
      [] OTHER -> <<0, 15>>

\* the signed value of the little-endian integer in n bytes (n >= 2)
SignedLE(b, n) ==
    LEVal(Take(b, n - 1))
        + (IF b[n] >= 128 THEN b[n] - 256 ELSE b[n])
            * (CASE n = 2 -> 256 [] n = 3 -> 65536 [] OTHER -> 16777216)

\* sampleDecodeFunc: the integer in the scratch buffer; 8 bits are unsigned
sampleDecodeInt(scratch, nbytes) ==
    IF nbytes = 1 THEN scratch[1] ELSE SignedLE(scratch, nbytes)

\* sampleDecodeFloat32Func: the error, or the codec it selects
sampleDecodeFloat32Func(bitsPerSample, wavFormat) ==
    IF wavFormat = wavFormatIEEEFloat
    THEN IF bitsPerSample \in {32, 64}
         THEN [err |-> NoErr, codec |-> "float"]
         ELSE [err |-> ErrArg("unhandled float bit depth", <<bitsPerSample>>), codec |-> ""]
    ELSE IF wavFormat = wavFormatALaw
    THEN IF bitsPerSample = 8
         THEN [err |-> NoErr, codec |-> "alaw"]
         ELSE [err |-> ErrArg("unsupported A-law bit depth", <<bitsPerSample>>), codec |-> ""]
    ELSE IF wavFormat = wavFormatMuLaw
    THEN IF bitsPerSample = 8
         THEN [err |-> NoErr, codec |-> "mulaw"]
         ELSE [err |-> ErrArg("unsupported mu-law bit depth", <<bitsPerSample>>), codec |-> ""]
    ELSE IF isUnsupportedCompressedFormat(wavFormat)
    THEN [err |-> unsupportedCompressedFormatError(wavFormat), codec |-> ""]
    ELSE IF wavFormat # wavFormatPCM
    THEN [err |-> ErrArg("unsupported wav format", <<wavFormat>>), codec |-> ""]
    ELSE IF bitsPerSample >= 8 /\ bitsPerSample <= 32
    THEN [err |-> NoErr, codec |-> "pcm"]
    ELSE [err |-> Wrapf("failed to create int decoder", ErrArg("unhandled byte depth", <<bitsPerSample>>)),
          codec |-> ""]

\* one call of the PCM decode function on a reader that returned the bytes
\* got (at least one): they overwrite the front of the scratch buffer and
\* the integer is taken from the whole of it
DecodePCMSample(got, scratch, bitDepth) ==
    Let(PadTo(got, Len(scratch), scratch), LAMBDA sc :
        [scratch |-> sc,
         value |-> normalizePCMInt(sampleDecodeInt(sc, bytesPerSample(bitDepth)),
                                   bytesPerSample(bitDepth) * 8)])

\* the decode loop of PCMBuffer over the bytes read in one batch: n is the
\* count so far, size the capacity of the caller's buffer
RECURSIVE StreamDecodeLoop(_, _, _, _, _, _)
StreamDecodeLoop(bytes, scratch, out, size, bitDepth, misaligned) ==
    IF Len(out) >= size THEN out
    ELSE IF bytes = <<>>
    THEN IF misaligned THEN SubSeq(out, 1, Len(out) - 1) ELSE out
    ELSE Let(DecodePCMSample(Take(bytes, bytesPerSample(bitDepth)), scratch, bitDepth), LAMBDA s :
         Let(Drop(bytes, bytesPerSample(bitDepth)), LAMBDA rest :
         Let(Append(out, s.value), LAMBDA out2 :
             StreamDecodeLoop(rest, s.scratch, out2, size, bitDepth, misaligned))))

\* the decode loop of decodePCMBuffer: one Chunk.Read per sample until the
\* reader reports an error
RECURSIVE BulkDecodeLoop(_, _, _, _, _)
BulkDecodeLoop(f, ch, scratch, out, bitDepth) ==
    Let(ChunkRead(f, ch, bytesPerSample(bitDepth)), LAMBDA r :
        IF r.err # NoErr THEN [out |-> out, ch |-> r.ch]
        ELSE Let(DecodePCMSample(r.data, scratch, bitDepth), LAMBDA s :
             Let(Append(out, s.value), LAMBDA out2 :
                 BulkDecodeLoop(f, r.ch, s.scratch, out2, bitDepth))))

ZeroBytes(n) == [i \in 1..n |-> 0]

-----------------------------------------------------------------------------
(* The GSM 6.10 decoder.  The synthesis filters (gsm.go, decodeFrame and   *)
(* below) are not transcribed: what the container decoder depends on is    *)
(* that the 320 samples of a block are a function of the block's bytes     *)
(* and of the filter state the earlier blocks left, which filt stands for. *)

GsmFiltMod == 64

newGSMDecoder(factSamples) ==
    [filt |-> 0, leftover |-> <<>>, leftoverPos |-> 0, delivered |-> 0, factSamples |-> factSamples]

RECURSIVE SumBytes(_)
SumBytes(b) == IF b = <<>> THEN 0 ELSE b[1] + SumBytes(Tail(b))

\* gsmDecoder.decodeBlock followed by normalizePCMInt(s, 16) of each sample
decodeBlock(g, block) ==
    Let((g.filt * 5 + SumBytes(block) + 1) % GsmFiltMod, LAMBDA filt2 :
        [g |-> [g EXCEPT !.filt = filt2],
         samples |-> [k \in 1..gsmSamplesPerBlock |->
                        normalizePCMInt(8 * ((filt2 * gsmSamplesPerBlock + k) % 4096) - 16384, 16)]])

\* gsmDecoder.decodeAllBlocks
RECURSIVE decodeAllBlocksLoop(_, _, _, _)
decodeAllBlocksLoop(f, ch, g, all) ==
    Let(ChunkRReadFull(f, ch, gsmBlockSize), LAMBDA r :
        IF Len(r.data) < gsmBlockSize THEN [out |-> all, ch |-> r.ch]
        ELSE Let(decodeBlock(g, r.data), LAMBDA b :
             Let(all \o b.samples, LAMBDA all2 :
                 decodeAllBlocksLoop(f, r.ch, b.g, all2))))

\* decodeAllBlocks without the cut at the declared sample count
decodeAllBlocksUncut(f, ch, g, factSamples) ==
    Let(decodeAllBlocksLoop(f, ch, g, <<>>), LAMBDA r : [out |-> r.out, ch |-> r.ch])

decodeAllBlocks(f, ch, g, factSamples) ==
    Let(decodeAllBlocksLoop(f, ch, g, <<>>), LAMBDA r :
        [out |-> IF factSamples > 0 /\ Len(r.out) > factSamples THEN Take(r.out, factSamples) ELSE r.out,
         ch |-> r.ch])

\* the samples of a block that count: all of them, or those the fact chunk
\* still allows
BlockSamples(g) ==
    IF g.factSamples > 0 /\ g.delivered + gsmSamplesPerBlock > g.factSamples
    THEN g.factSamples - g.delivered ELSE gsmSamplesPerBlock

\* the decoder after a block of which take samples went out and the rest
\* of blockSamples is kept as leftover
KeepLeftover(g, samples, take, blockSamples) ==
    [g EXCEPT !.delivered = @ + take,
              !.leftover = IF blockSamples - take > 0 THEN SubSeq(samples, take + 1, blockSamples) ELSE @,
              !.leftoverPos = IF blockSamples - take > 0 THEN 0 ELSE @]

\* the block loop of gsmDecoder.decodeToBuffer; size is len(out)
RECURSIVE decodeToBufferLoop(_, _, _, _, _)
decodeToBufferLoop(f, ch, g, out, size) ==
    IF Len(out) >= size THEN [g |-> g, out |-> out, ch |-> ch]
    ELSE IF g.factSamples > 0 /\ g.delivered >= g.factSamples THEN [g |-> g, out |-> out, ch |-> ch]
    ELSE
    Let(ChunkRReadFull(f, ch, gsmBlockSize), LAMBDA r :
        IF Len(r.data) < gsmBlockSize THEN [g |-> g, out |-> out, ch |-> r.ch]
        ELSE
        Let(decodeBlock(g, r.data), LAMBDA b :
        Let(Min(size - Len(out), BlockSamples(g)), LAMBDA take :
        Let(IF take = BlockSamples(g) THEN [b.g EXCEPT !.delivered = @ + take]
            ELSE KeepLeftover(b.g, b.samples, take, BlockSamples(g)), LAMBDA g2 :
        Let(out \o Take(b.samples, take), LAMBDA out2 :
            decodeToBufferLoop(f, r.ch, g2, out2, size))))))

\* a leftover count that disregards the length of the caller's buffer
LeftoverAvailWholeLeftover(g, size) ==
    IF g.factSamples > 0 /\ g.delivered + (Len(g.leftover) - g.leftoverPos) > g.factSamples
    THEN g.factSamples - g.delivered
    ELSE Len(g.leftover) - g.leftoverPos

\* the leftover samples a call may hand out first
LeftoverAvail(g, size) ==
    IF g.factSamples > 0 /\ g.delivered + Min(Len(g.leftover) - g.leftoverPos, size) > g.factSamples
    THEN g.factSamples - g.delivered
    ELSE Min(Len(g.leftover) - g.leftoverPos, size)

\* the decoder after avail leftover samples went out
TakeLeftover(g, avail) ==
    IF g.leftoverPos + avail >= Len(g.leftover)
    THEN [g EXCEPT !.leftover = <<>>, !.leftoverPos = 0, !.delivered = @ + avail]
    ELSE [g EXCEPT !.leftoverPos = @ + avail, !.delivered = @ + avail]

\* gsmDecoder.decodeToBuffer
decodeToBuffer(f, ch, g, size) ==
    IF g.leftoverPos < Len(g.leftover)
    THEN Let(LeftoverAvail(g, size), LAMBDA avail :
             IF avail <= 0 THEN [g |-> g, out |-> <<>>, ch |-> ch]
             ELSE Let(TakeLeftover(g, avail), LAMBDA g2 :
                  Let(SubSeq(g.leftover, g.leftoverPos + 1, g.leftoverPos + avail), LAMBDA out :
                      decodeToBufferLoop(f, ch, g2, out, size))))
    ELSE decodeToBufferLoop(f, ch, g, <<>>, size)

-----------------------------------------------------------------------------
(* Decoding the audio data                                                 *)

\* Decoder.decodePCMBuffer
decodePCMBuffer(f, d) ==
    Let(sampleDecodeFloat32Func(d.BitDepth, d.WavAudioFormat), LAMBDA c :
        IF c.err # NoErr
        THEN [d |-> d, data |-> <<>>, err |-> Wrapf("could not get sample decode func", c.err)]
        ELSE Let(BulkDecodeLoop(f, AtCursor(d.PCMChunk, d), ZeroBytes(bytesPerSample(d.BitDepth)),
                                <<>>, d.BitDepth), LAMBDA r :
                 [d |-> [d EXCEPT !.pos = r.ch.pos, !.PCMChunk = Stored(r.ch)],
                  data |-> r.out, err |-> NoErr]))

\* Decoder.decodeGSMBuffer: a decoder of its own for the bulk decode
decodeGSMBuffer(f, d) ==
    Let(decodeAllBlocks(f, AtCursor(d.PCMChunk, d), newGSMDecoder(d.CompressedSamples),
                        d.CompressedSamples), LAMBDA r :
        [d |-> [d EXCEPT !.pos = r.ch.pos, !.PCMChunk = Stored(r.ch)], data |-> r.out, err |-> NoErr])

\* the first step of FullPCMBuffer and PCMBuffer: FwdToPCM unless the data
\* chunk has been located
EnsurePCM(f, d) ==
    IF ~d.pcmDataAccessed THEN FwdToPCM(f, d) ELSE [d |-> d, err |-> NoErr]

\* Decoder.FullPCMBuffer: the session after the call, the samples, the error
FullPCMBuffer(f, d) ==
    Let(EnsurePCM(f, d), LAMBDA fw :
        IF fw.err # NoErr THEN [d |-> fw.d, data |-> <<>>, err |-> fw.d.err]
        ELSE IF fw.d.PCMChunk = Nil THEN [d |-> fw.d, data |-> <<>>, err |-> ErrPCMChunkNotFound]
        ELSE IF fw.d.WavAudioFormat = wavFormatGSM610 THEN decodeGSMBuffer(f, fw.d)
        ELSE IF isUnsupportedCompressedFormat(fw.d.WavAudioFormat)
        THEN [d |-> fw.d, data |-> <<>>, err |-> unsupportedCompressedFormatError(fw.d.WavAudioFormat)]
        ELSE decodePCMBuffer(f, fw.d))

\* the GSM branch of PCMBuffer: the session's block decoder, made on first use
streamGSMBuffer(f, d1, size) ==
    Let(decodeToBuffer(f, AtCursor(d1.PCMChunk, d1),
                       IF d1.gsmDec = Nil THEN newGSMDecoder(d1.CompressedSamples) ELSE d1.gsmDec,
                       size), LAMBDA r :
        [d |-> [d1 EXCEPT !.gsmDec = r.g, !.pos = r.ch.pos, !.PCMChunk = Stored(r.ch)],
         data |-> r.out, err |-> NoErr])

\* the PCM branch of PCMBuffer: one Read of size samples' bytes, then the
\* decode loop over what came
streamPCMBuffer(f, d1, size) ==
    Let(sampleDecodeFloat32Func(d1.BitDepth, d1.WavAudioFormat), LAMBDA c :
        IF c.err # NoErr
        THEN [d |-> d1, data |-> <<>>, err |-> Wrapf("could not get sample decode func", c.err)]
        ELSE
        Let(ChunkRRead(f, AtCursor(d1.PCMChunk, d1), size * bytesPerSample(d1.BitDepth)), LAMBDA r :
        Let([d1 EXCEPT !.pos = r.ch.pos, !.PCMChunk = Stored(r.ch)], LAMBDA d2 :
            IF r.err # NoErr \/ Len(r.data) = 0
            THEN [d |-> d2, data |-> <<>>, err |-> NoErr]
            ELSE [d |-> d2,
                  data |-> StreamDecodeLoop(r.data, ZeroBytes(bytesPerSample(d1.BitDepth)), <<>>, size,
                                            d1.BitDepth,
                                            Len(r.data) % bytesPerSample(d1.BitDepth) > 0),
                  err |-> NoErr])))

\* Decoder.PCMBuffer with a buffer of size samples (size > 0): the session
\* after the call, the samples buf.Data[:n], the error
PCMBuffer(f, d, size) ==
    Let(EnsurePCM(f, d), LAMBDA fw :
        IF fw.err # NoErr THEN [d |-> fw.d, data |-> <<>>, err |-> fw.d.err]
        ELSE IF fw.d.PCMChunk = Nil THEN [d |-> fw.d, data |-> <<>>, err |-> ErrPCMChunkNotFound]
        ELSE IF fw.d.WavAudioFormat = wavFormatGSM610 THEN streamGSMBuffer(f, fw.d, size)
        ELSE IF isUnsupportedCompressedFormat(fw.d.WavAudioFormat)
        THEN [d |-> fw.d, data |-> <<>>, err |-> unsupportedCompressedFormatError(fw.d.WavAudioFormat)]
        ELSE streamPCMBuffer(f, fw.d, size))

\* a reset that keeps the GSM block decoder of the session
RewindResetKeepingGSM(d) ==
    [d EXCEPT !.pos = 0, !.parser = NewParser, !.pcmDataAccessed = FALSE,
              !.PCMChunk = Nil, !.err = NoErr, !.NumChans = 0,
              !.CompressedSamples = 0, !.FmtChunk = Nil]

\* a reset that also drops the parsed metadata and the preserved chunks
RewindResetClearingAll(d) ==
    [d EXCEPT !.pos = 0, !.parser = NewParser, !.pcmDataAccessed = FALSE,
              !.PCMChunk = Nil, !.err = NoErr, !.NumChans = 0,
              !.CompressedSamples = 0, !.FmtChunk = Nil, !.gsmDec = Nil,
              !.Metadata = Nil, !.UnknownChunks = <<>>, !.unknownChunkOrder = 0]

\* what Rewind resets before it seeks
RewindReset(d) ==
    [d EXCEPT !.pos = 0, !.parser = NewParser, !.pcmDataAccessed = FALSE,
              !.PCMChunk = Nil, !.err = NoErr, !.NumChans = 0,
              !.CompressedSamples = 0, !.FmtChunk = Nil, !.gsmDec = Nil]

\* Decoder.Rewind: back to byte 0 with a new parser, then FwdToPCM
Rewind(f, d) ==
    Let(RewindReset(d), LAMBDA d1 :
    Let(FwdToPCM(f, d1), LAMBDA fw :
        [d |-> fw.d,
         err |-> IF fw.err # NoErr THEN Wrapf("failed to seek to the PCM data", fw.err) ELSE NoErr]))

-----------------------------------------------------------------------------
(* The sample codecs of the encoder.  A sample handed to the encoder is    *)
(* the same exact quotient <<n, e>> the decoder delivers: n / 255 for      *)
(* e = 255, n / 2^e otherwise.  The values used have at most 24            *)
(* significant bits, so the float32 the code holds is that quotient.       *)

Den(val) == IF val[2] = 255 THEN 255 ELSE 2 ^ val[2]

\* clampFloat32(value, -1, 1) and clampFloat64(value, -1, 1)
clampFloat32(val) ==
    IF val[2] = 31 THEN val
    ELSE IF val[1] > Den(val) THEN <<Den(val), val[2]>>
    ELSE IF val[1] < -Den(val) THEN <<-Den(val), val[2]>>
    ELSE val

\* math.Round of a / b, b > 0: halves round away from zero
RoundDiv(a, b) == IF a >= 0 THEN (2 * a + b) \div (2 * b) ELSE -((b - 2 * a) \div (2 * b))

\* an 8-bit quantizer on the scale of 128: round((value + 1) * 128)
float32ToPCMUint8Scale128(value) ==
    Let(clampFloat32(value), LAMBDA v :
        Min(255, Max(0, RoundDiv((v[1] + Den(v)) * 128, Den(v)))))

\* float32ToPCMUint8: round((value + 1) * 127.5) held in 0..255
float32ToPCMUint8(value) ==
    Let(clampFloat32(value), LAMBDA v :
        Min(255, Max(0, RoundDiv((v[1] + Den(v)) * 255, 2 * Den(v)))))

\* float32ToPCMInt32: round(value * 2^(bitDepth-1)) held in the signed range
\* of the depth; 0 for a depth that is not 16, 24 or 32
float32ToPCMInt32(value, bitDepth) ==
    IF bitDepth \notin {16, 24, 32} THEN 0
    ELSE Let(clampFloat32(value), LAMBDA v :
         IF v[2] # 31 /\ v[1] >= Den(v) THEN ((2 ^ (bitDepth - 2)) - 1) * 2 + 1
         ELSE IF v[2] # 31 /\ v[1] <= -Den(v) THEN (-(2 ^ (bitDepth - 2))) * 2
         ELSE IF v[2] = 255 THEN RoundDiv(v[1] * (2 ^ (bitDepth - 1)), 255)
         ELSE IF v[2] <= bitDepth - 1 THEN v[1] * (2 ^ (bitDepth - 1 - v[2]))
         ELSE Min(RoundDiv(v[1], 2 ^ (v[2] - bitDepth + 1)), ((2 ^ (bitDepth - 2)) - 1) * 2 + 1))

\* audio.Int32toInt24LEBytes
Int32toInt24LEBytes(n) == <<n % 256, (n \div 256) % 256, (n \div 65536) % 256>>

\* the exclusive or of two bytes
RECURSIVE Xor(_, _)
Xor(a, b) == IF a = 0 /\ b = 0 THEN 0 ELSE ((a + b) % 2) + 2 * Xor(a \div 2, b \div 2)

muLawBias == 132
muLawClip == 8159
aLawClip == 4095
muLawSegmentEnd == <<63, 127, 255, 511, 1023, 2047, 4095, 8191>>
aLawSegmentEnd == <<31, 63, 127, 255, 511, 1023, 2047, 4095>>

\* searchSegment: the 0-based index of the first segment that holds value
searchSegment(value, table) ==
    Cardinality({i \in 1..Len(table) : value > table[i]})

encodeMuLawSample(pcm) ==
    Let(Min(IF pcm \div 4 < 0 THEN -(pcm \div 4) ELSE pcm \div 4, muLawClip) + (muLawBias \div 4), LAMBDA value :
    Let(IF pcm \div 4 < 0 THEN 127 ELSE 255, LAMBDA mask :
    Let(searchSegment(value, muLawSegmentEnd), LAMBDA segment :
        IF segment >= 8 THEN Xor(127, mask)
        ELSE Xor(segment * 16 + ((value \div (2 ^ (segment + 1))) % 16), mask))))

encodeALawSample(pcm) ==
    Let(Min(IF pcm \div 8 < 0 THEN -(pcm \div 8) - 1 ELSE pcm \div 8, aLawClip), LAMBDA value :
    Let(IF pcm \div 8 < 0 THEN 85 ELSE 213, LAMBDA mask :
    Let(searchSegment(value, aLawSegmentEnd), LAMBDA segment :
        IF segment >= 8 THEN Xor(127, mask)
        ELSE IF segment < 2 THEN Xor(segment * 16 + ((value \div 2) % 16), mask)
        ELSE Xor(segment * 16 + ((value \div (2 ^ segment)) % 16), mask))))

\* the IEEE 754 fields of n / 2^e: sign, the exponent above the bias, and
\* the 23 leading bits of the fraction
FloatFields(val) ==
    Let(IF val[1] < 0 THEN -val[1] ELSE val[1], LAMBDA a :
    Let(Log2(a), LAMBDA p :
        [sign |-> IF val[1] < 0 THEN 1 ELSE 0,
         zero |-> a = 0,
         exp |-> p - val[2],
         frac |-> IF p <= 23 THEN (a - (2 ^ p)) * (2 ^ (23 - p)) ELSE (a - (2 ^ p)) \div (2 ^ (p - 23))]))

\* binary.Write of a float32, little-endian
Float32Bytes(val) ==
    Let(FloatFields(val), LAMBDA x :
        IF x.zero THEN <<0, 0, 0, 0>>
        ELSE <<x.frac % 256, (x.frac \div 256) % 256,
               ((x.exp + 127) % 2) * 128 + (x.frac \div 65536),
               x.sign * 128 + ((x.exp + 127) \div 2)>>)

\* binary.Write of a float64, little-endian
Float64Bytes(val) ==
    Let(FloatFields(val), LAMBDA x :
        IF x.zero THEN <<0, 0, 0, 0, 0, 0, 0, 0>>
        ELSE <<0, 0, 0, (x.frac % 8) * 32, (x.frac \div 8) % 256, (x.frac \div 2048) % 256,
               ((x.exp + 1023) % 16) * 16 + (x.frac \div 524288),
               x.sign * 128 + ((x.exp + 1023) \div 16)>>)

-----------------------------------------------------------------------------
(* The decoding side of the sample codecs: G.711 expansion and the IEEE    *)
(* 754 bit patterns                                                        *)

decodeMuLawSample(sample) ==
    Let(255 - sample, LAMBDA value :
    Let((((value % 16) * 8) + muLawBias) * (2 ^ ((value \div 16) % 8)) - muLawBias, LAMBDA decoded :
        IF value >= 128 THEN -decoded ELSE decoded))

decodeALawSample(sample) ==
    Let(Xor(sample, 85), LAMBDA value :
    Let((value \div 16) % 8, LAMBDA exponent :
    Let((value % 16) * 16, LAMBDA mantissa :
    Let(CASE exponent = 0 -> mantissa + 8
          [] exponent = 1 -> mantissa + 264
          [] OTHER -> (mantissa + 264) * (2 ^ (exponent - 1)), LAMBDA decoded :
        IF value < 128 THEN -decoded ELSE decoded))))

\* math.Float32frombits of four little-endian bytes, for a finite value
\* below 2^24 in magnitude: (2^23 + fraction) / 2^(150 - exponent field)
Float32FromBytes(b) ==
    Let((b[4] % 128) * 2 + (b[3] \div 128), LAMBDA expo :
    Let((b[3] % 128) * 65536 + b[2] * 256 + b[1], LAMBDA frac :
        IF expo = 0 THEN <<0, 0>>
        ELSE Reduced(<<(IF b[4] >= 128 THEN -1 ELSE 1) * (8388608 + frac), 150 - expo>>)))

\* float32(math.Float64frombits) of eight little-endian bytes, for a
\* finite value below 2^24 in magnitude: the 52 bits of the fraction are
\* rounded to 23, a tie to the even one
Float64FromBytes(b) ==
    Let((b[8] % 128) * 16 + (b[7] \div 16), LAMBDA expo :
    Let((b[7] % 16) * 524288 + b[6] * 2048 + b[5] * 8 + (b[4] \div 32), LAMBDA frac :
    Let((b[4] % 32) * 16777216 + b[3] * 65536 + b[2] * 256 + b[1], LAMBDA low :
    Let(IF low > 268435456 \/ (low = 268435456 /\ frac % 2 = 1) THEN frac + 1 ELSE frac, LAMBDA rounded :
        IF expo = 0 THEN <<0, 0>>
        ELSE Reduced(<<(IF b[8] >= 128 THEN -1 ELSE 1) * (8388608 + rounded), 1046 - expo>>)))))

\* the function sampleDecodeFloat32Func returns, applied to a reader that
\* gives all the bytes of one sample
DecodeSampleBytes(b, bitsPerSample, wavFormat) ==
    Let(sampleDecodeFloat32Func(bitsPerSample, wavFormat).codec, LAMBDA codec :
        CASE codec = "float" -> clampFloat32(IF bitsPerSample = 32 THEN Float32FromBytes(b)
                                             ELSE Float64FromBytes(b))
          [] codec = "alaw" -> normalizePCMInt(decodeALawSample(b[1]), 16)
          [] codec = "mulaw" -> normalizePCMInt(decodeMuLawSample(b[1]), 16)
          [] OTHER -> DecodePCMSample(b, ZeroBytes(Len(b)), bitsPerSample).value)

-----------------------------------------------------------------------------
(* The encoder.  The sink is a file-like io.WriteSeeker: e.out are its     *)
(* bytes and e.wpos is its cursor; a write at the cursor overwrites or     *)
(* extends, and a write beyond the end leaves zero bytes in between.  The  *)
(* sink accepts every write, so binary.Write fails only on a value that    *)
(* has no fixed size.  e.w tells whether the encoder has a sink at all.    *)

errNilBuffer == Err0("can't add a nil buffer")
errAlreadyWroteHdr == Err0("already wrote header")
errNilWriter == Err0("can't write to a nil writer")
errEncUnsupportedFloatBitDepth(depth) == ErrArg("unsupported float bit depth", <<depth>>)
errUnsupportedFrameBitSize(depth) == ErrArg("can't add frames of bit size", <<depth>>)
errUnsupportedALawBitDepth(depth) == ErrArg("unsupported A-law bit depth", <<depth>>)
errUnsupportedMuLawBitDepth(depth) == ErrArg("unsupported mu-law bit depth", <<depth>>)
errUnsupportedWavFormat(format) == ErrArg("unsupported wav format", <<format>>)

\* the placeholder 0xFFFFFFFF of a size that is patched on Close
SizePlaceholder == <<255, 255, 255, 255>>

\* NewEncoder; w is FALSE for a nil io.WriteSeeker
NewEncoder(w, sampleRate, bitDepth, numChans, audioFormat) ==
    [w |-> w, out |-> <<>>, wpos |-> 0,
     SampleRate |-> sampleRate, BitDepth |-> bitDepth, NumChans |-> numChans,
     WavAudioFormat |-> audioFormat, FmtChunk |-> Nil, Metadata |-> Nil, UnknownChunks |-> <<>>,
     WrittenBytes |-> 0, frames |-> 0, pcmChunkStarted |-> FALSE, pcmChunkSizePos |-> 0,
     wroteHeader |-> FALSE, wroteUnknownPre |-> FALSE, wroteUnknownPost |-> FALSE]

\* NewEncoderFromDecoder: the format fields, a copy of the fmt chunk and of
\* the preserved chunks
NewEncoderFromDecoder(w, d) ==
    [NewEncoder(w, d.SampleRate, d.BitDepth, d.NumChans, d.WavAudioFormat)
        EXCEPT !.FmtChunk = d.FmtChunk, !.UnknownChunks = d.UnknownChunks]

\* Write of the sink at its cursor
SinkWrite(e, b) ==
    IF b = <<>> THEN e
    ELSE [e EXCEPT !.out = Take(e.out, e.wpos) \o ZeroBytes(e.wpos - Len(e.out)) \o b
                              \o Drop(e.out, e.wpos + Len(b)),
                   !.wpos = e.wpos + Len(b)]

\* Encoder.AddLE / AddBE of a value of fixed size whose bytes are b, and the
\* direct writes that add their byte count to WrittenBytes
AddLE(e, b) == [SinkWrite(e, b) EXCEPT !.WrittenBytes = @ + Len(b)]

\* Encoder.AddLE of a value without a fixed size (an int): binary.Size is
\* -1 and binary.Write refuses the value
AddLEUnsized(e) ==
    [e |-> [e EXCEPT !.WrittenBytes = @ - 1],
     err |-> Wrapf("failed to write little endian", Err0("binary.Write: some values are not fixed-sized in type int"))]

effectiveAudioFormat(e) ==
    IF e.FmtChunk # Nil THEN EffectiveFormatTag(e.FmtChunk) ELSE e.WavAudioFormat

effectiveBlockAlign(e) == e.NumChans * bytesPerSample(e.BitDepth)

\* a fmt chunk built from the encoder's own fields, whatever fmt chunk it
\* was given
buildFmtChunkFromFields(e) ==
    [FormatTag |-> e.WavAudioFormat % 65536, NumChannels |-> e.NumChans % 65536,
     SampleRate |-> e.SampleRate, AvgBytesPerSec |-> e.SampleRate * effectiveBlockAlign(e),
     BlockAlign |-> effectiveBlockAlign(e) % 65536, BitsPerSample |-> e.BitDepth % 65536,
     ExtraData |-> <<>>,
     Extensible |-> IF e.WavAudioFormat % 65536 = wavFormatExtensible
                    THEN [ValidBitsPerSample |-> e.BitDepth % 65536, ChannelMask |-> 0,
                          SubFormat |-> makeSubFormatGUID(effectiveAudioFormat(e) % 65536),
                          ExtraData |-> <<>>]
                    ELSE Nil]

\* Encoder.buildFmtChunkForWrite
buildFmtChunkForWrite(e) ==
    Let(IF e.FmtChunk # Nil
        THEN [e.FmtChunk EXCEPT !.NumChannels = e.NumChans % 65536,
                                !.SampleRate = e.SampleRate,
                                !.BlockAlign = effectiveBlockAlign(e) % 65536,
                                !.BitsPerSample = e.BitDepth % 65536,
                                !.AvgBytesPerSec = e.SampleRate * effectiveBlockAlign(e)]
        ELSE [FormatTag |-> e.WavAudioFormat % 65536, NumChannels |-> e.NumChans % 65536,
              SampleRate |-> e.SampleRate, AvgBytesPerSec |-> e.SampleRate * effectiveBlockAlign(e),
              BlockAlign |-> effectiveBlockAlign(e) % 65536, BitsPerSample |-> e.BitDepth % 65536,
              ExtraData |-> <<>>, Extensible |-> Nil], LAMBDA chunk :
        IF chunk.FormatTag = wavFormatExtensible /\ chunk.Extensible = Nil
        THEN [chunk EXCEPT !.Extensible =
                  [ValidBitsPerSample |-> e.BitDepth % 65536, ChannelMask |-> 0,
                   SubFormat |-> makeSubFormatGUID(effectiveAudioFormat(e) % 65536),
                   ExtraData |-> <<>>]]
        ELSE chunk)

\* Encoder.writeFmtChunk: the size and the payload of the fmt chunk
writeFmtChunk(e) ==
    Let(buildFmtChunkForWrite(e), LAMBDA chunk :
    Let(chunk.FormatTag = wavFormatExtensible /\ chunk.Extensible # Nil, LAMBDA needsExtensible :
    Let(LE16(chunk.FormatTag) \o LE16(chunk.NumChannels) \o LE32(chunk.SampleRate)
            \o LE32(chunk.AvgBytesPerSec) \o LE16(chunk.BlockAlign) \o LE16(chunk.BitsPerSample),
        LAMBDA base :
        IF ~needsExtensible THEN AddLE(e, LE32(16) \o base)
        ELSE Let(LE32(16 + 2 + 22 + Len(chunk.Extensible.ExtraData)) \o base
                    \o LE16(22 + Len(chunk.Extensible.ExtraData))
                    \o LE16(chunk.Extensible.ValidBitsPerSample) \o LE32(chunk.Extensible.ChannelMask)
                    \o chunk.Extensible.SubFormat \o chunk.Extensible.ExtraData, LAMBDA b :
                 AddLE(e, b)))))

\* Encoder.writeHeader
writeHeader(e) ==
    IF e.wroteHeader THEN [e |-> e, err |-> errAlreadyWroteHdr]
    ELSE Let([e EXCEPT !.wroteHeader = TRUE], LAMBDA e1 :
         IF ~e1.w THEN [e |-> e1, err |-> errNilWriter]
         ELSE IF e1.WrittenBytes > 0 THEN [e |-> e1, err |-> NoErr]
         ELSE Let(AddLE(e1, RiffID \o SizePlaceholder \o WavFormatID \o FmtID), LAMBDA e2 :
                  [e |-> writeFmtChunk(e2), err |-> NoErr]))

\* Encoder.writeRawChunk: identifier, len(Data) as the size, the data, and
\* a zero byte after data of odd length
writeRawChunk(e, chunk) ==
    Let(chunk.ID \o LE32(Len(chunk.Data)) \o chunk.Data
            \o (IF Len(chunk.Data) % 2 = 1 THEN <<0>> ELSE <<>>), LAMBDA b :
        AddLE(e, b))

\* Encoder.writeUnknownChunks: the chunks of one side, in slice order
RECURSIVE writeUnknownChunksFrom(_, _, _)
writeUnknownChunksFrom(e, i, beforeData) ==
    IF i > Len(e.UnknownChunks) THEN e
    ELSE Let(IF e.UnknownChunks[i].BeforeData = beforeData
             THEN writeRawChunk(e, e.UnknownChunks[i]) ELSE e, LAMBDA e1 :
             writeUnknownChunksFrom(e1, i + 1, beforeData))

writeUnknownChunks(e, beforeData) == writeUnknownChunksFrom(e, 1, beforeData)

\* encodeInfoChunk: INFO, then a section for every field that is set
encodeInfoChunk(e) ==
    CIDInfo \o (IF e.Metadata.Artist = <<>> THEN <<>>
                ELSE markerIART \o LE32(Len(e.Metadata.Artist) + 1) \o e.Metadata.Artist \o <<0>>)

\* Encoder.writeMetadata: no typed handler encodes anything for a metadata
\* object without broadcast or cart records; then the LIST chunk
writeMetadata(e) ==
    IF e.Metadata = Nil THEN e
    ELSE Let(encodeInfoChunk(e), LAMBDA chunkData :
         Let(CIDList \o LE32(Len(chunkData)) \o chunkData, LAMBDA b :
             AddLE(e, b)))

\* the start of the data chunk, shared by Write and WriteFrame: the
\* pre-data unknown chunks once, the identifier, the size placeholder
beginDataChunk(e) ==
    IF e.pcmChunkStarted THEN e
    ELSE Let(IF e.wroteUnknownPre THEN e
             ELSE [writeUnknownChunks(e, TRUE) EXCEPT !.wroteUnknownPre = TRUE], LAMBDA e1 :
         Let(AddLE(e1, DataFormatID), LAMBDA e2 :
         Let([e2 EXCEPT !.pcmChunkStarted = TRUE, !.pcmChunkSizePos = e2.WrittenBytes], LAMBDA e3 :
             AddLE(e3, SizePlaceholder))))

\* the bytes of one sample under the encoder's format, or the error
EncodeSample(e, val) ==
    Let(effectiveAudioFormat(e), LAMBDA audioFormat :
        IF audioFormat = wavFormatIEEEFloat
        THEN CASE e.BitDepth = 32 -> [err |-> NoErr, bytes |-> Float32Bytes(clampFloat32(val))]
               [] e.BitDepth = 64 -> [err |-> NoErr, bytes |-> Float64Bytes(clampFloat32(val))]
               [] OTHER -> [err |-> errEncUnsupportedFloatBitDepth(e.BitDepth), bytes |-> <<>>]
        ELSE IF audioFormat = wavFormatALaw
        THEN IF e.BitDepth # 8
             THEN [err |-> errUnsupportedALawBitDepth(e.BitDepth), bytes |-> <<>>]
             ELSE [err |-> NoErr, bytes |-> <<encodeALawSample(float32ToPCMInt32(val, 16))>>]
        ELSE IF audioFormat = wavFormatMuLaw
        THEN IF e.BitDepth # 8
             THEN [err |-> errUnsupportedMuLawBitDepth(e.BitDepth), bytes |-> <<>>]
             ELSE [err |-> NoErr, bytes |-> <<encodeMuLawSample(float32ToPCMInt32(val, 16))>>]
        ELSE IF audioFormat # wavFormatPCM
        THEN [err |-> errUnsupportedWavFormat(audioFormat), bytes |-> <<>>]
        ELSE CASE e.BitDepth = 8 -> [err |-> NoErr, bytes |-> <<float32ToPCMUint8(val)>>]
               [] e.BitDepth = 16 -> [err |-> NoErr, bytes |-> LE16(float32ToPCMInt32(val, 16))]
               [] e.BitDepth = 24 ->
                    [err |-> NoErr, bytes |-> Int32toInt24LEBytes(float32ToPCMInt32(val, 24))]
               [] e.BitDepth = 32 -> [err |-> NoErr, bytes |-> LE32(float32ToPCMInt32(val, 32))]
               [] OTHER -> [err |-> errUnsupportedFrameBitSize(e.BitDepth), bytes |-> <<>>])

\* the value loop of addBuffer over the values of whole frames
RECURSIVE EncodeValues(_, _, _, _)
EncodeValues(e, data, i, bytes) ==
    IF i > Len(data) THEN bytes
    ELSE Let(bytes \o EncodeSample(e, data[i]).bytes, LAMBDA bytes2 :
             EncodeValues(e, data, i + 1, bytes2))

\* audio.Float32Buffer.NumFrames; a buffer is Nil or its channel count and
\* its values
NumFrames(buf) == Len(buf.Data) \div (IF buf.NumChannels = 0 THEN 1 ELSE buf.NumChannels)

\* Encoder.addBuffer: whether a value can be encoded depends on the
\* encoder alone, so the loop fails on the first value or not at all
addBuffer(e, buf) ==
    IF buf = Nil THEN [e |-> e, err |-> errNilBuffer]
    ELSE Let(NumFrames(buf), LAMBDA frameCount :
         Let(SubSeq(buf.Data, 1, frameCount * buf.NumChannels), LAMBDA data :
             IF data # <<>> /\ EncodeSample(e, data[1]).err # NoErr
             THEN [e |-> e, err |-> EncodeSample(e, data[1]).err]
             ELSE Let(EncodeValues(e, data, 1, <<>>), LAMBDA bytes :
                      [e |-> [AddLE(e, bytes) EXCEPT !.frames = @ + frameCount], err |-> NoErr])))

\* Encoder.Write up to the call of addBuffer
WriteProlog(e) ==
    Let(IF e.wroteHeader THEN [e |-> e, err |-> NoErr] ELSE writeHeader(e), LAMBDA h :
        IF h.err # NoErr THEN h
        ELSE [e |-> beginDataChunk(h.e), err |-> NoErr])

\* Encoder.Write
Write(e, buf) ==
    Let(WriteProlog(e), LAMBDA p :
        IF p.err # NoErr THEN p ELSE addBuffer(p.e, buf))

\* Encoder.WriteFrame up to the count of the frame: the error of
\* writeHeader is dropped
WriteFrameProlog(e) ==
    Let(IF e.wroteHeader THEN e ELSE writeHeader(e).e, LAMBDA e1 : beginDataChunk(e1))

\* Encoder.WriteFrame from the count of the frame on; kind is the dynamic
\* type of the value: float32, float64, int16 (a fixed-size integer) or int
RECURSIVE WriteFrameValue(_, _, _)
WriteFrameValue(e, kind, val) ==
    Let([e EXCEPT !.frames = @ + 1], LAMBDA e1 :
        IF kind = "float32" \/ (kind = "float64" /\ effectiveAudioFormat(e1) = wavFormatIEEEFloat)
        THEN Let(EncodeSample(e1, val), LAMBDA s :
                 IF s.err # NoErr THEN [e |-> e1, err |-> s.err]
                 ELSE [e |-> AddLE(e1, s.bytes), err |-> NoErr])
        ELSE IF kind = "float64" THEN WriteFrameValue(e1, "float32", val)
        ELSE IF kind = "int16" THEN [e |-> AddLE(e1, LE16(val[1])), err |-> NoErr]
        ELSE AddLEUnsized(e1))

WriteFrame(e, kind, val) ==
    Let(WriteFrameProlog(e), LAMBDA e1 : WriteFrameValue(e1, kind, val))

\* a Close that writes the metadata LIST chunk ahead of the post-data chunks
CloseMetadataFirst(e) ==
    IF e = Nil THEN [e |-> e, err |-> NoErr]
    ELSE IF ~e.w THEN [e |-> e, err |-> NoErr]
    ELSE
    Let(IF ~e.wroteHeader /\ (e.Metadata # Nil \/ Len(e.UnknownChunks) > 0)
        THEN writeHeader(e).e ELSE e, LAMBDA e1 :
    Let(IF e1.wroteUnknownPre THEN e1
        ELSE [writeUnknownChunks(e1, TRUE) EXCEPT !.wroteUnknownPre = TRUE], LAMBDA e2 :
    Let(writeMetadata(e2), LAMBDA e3 :
    Let(IF e3.wroteUnknownPost THEN e3
        ELSE [writeUnknownChunks(e3, FALSE) EXCEPT !.wroteUnknownPost = TRUE], LAMBDA e4 :
    Let(AddLE([e4 EXCEPT !.wpos = 4], LE32(e4.WrittenBytes - 8)), LAMBDA e5 :
    Let(IF e5.pcmChunkSizePos > 0
        THEN AddLE([e5 EXCEPT !.wpos = e5.pcmChunkSizePos],
                   LE32((e5.BitDepth \div 8) * e5.NumChans * e5.frames))
        ELSE e5, LAMBDA e6 :
        [e |-> [e6 EXCEPT !.wpos = Len(e6.out)], err |-> NoErr]))))))

\* Encoder.Close; e is Nil for a nil encoder
Close(e) ==
    IF e = Nil THEN [e |-> e, err |-> NoErr]
    ELSE IF ~e.w THEN [e |-> e, err |-> NoErr]
    ELSE
    Let(IF ~e.wroteHeader /\ (e.Metadata # Nil \/ Len(e.UnknownChunks) > 0)
        THEN writeHeader(e).e ELSE e, LAMBDA e1 :
    Let(IF e1.wroteUnknownPre THEN e1
        ELSE [writeUnknownChunks(e1, TRUE) EXCEPT !.wroteUnknownPre = TRUE], LAMBDA e2 :
    Let(IF e2.wroteUnknownPost THEN e2
        ELSE [writeUnknownChunks(e2, FALSE) EXCEPT !.wroteUnknownPost = TRUE], LAMBDA e3 :
    Let(writeMetadata(e3), LAMBDA e4 :
    Let(AddLE([e4 EXCEPT !.wpos = 4], LE32(e4.WrittenBytes - 8)), LAMBDA e5 :
    Let(IF e5.pcmChunkSizePos > 0
        THEN AddLE([e5 EXCEPT !.wpos = e5.pcmChunkSizePos],
                   LE32((e5.BitDepth \div 8) * e5.NumChans * e5.frames))
        ELSE e5, LAMBDA e6 :
        [e |-> [e6 EXCEPT !.wpos = Len(e6.out)], err |-> NoErr]))))))

-----------------------------------------------------------------------------
(* Containers the decoder is run on, built the way the tests build theirs  *)
(* (writeTestChunk, makeWavWithUnknownChunks)                              *)

\* a chunk on the wire: identifier, declared size, payload, pad byte if odd
writeTestChunk(id, payload) ==
    id \o LE32(Len(payload)) \o payload \o (IF Len(payload) % 2 = 1 THEN <<0>> ELSE <<>>)

RECURSIVE writeTestChunks(_)
writeTestChunks(chunks) ==
    IF chunks = <<>> THEN <<>>
    ELSE writeTestChunk(chunks[1].id, chunks[1].data) \o writeTestChunks(Tail(chunks))

SampleRate8k == 8000

\* the 16 base bytes of a fmt chunk
fmtPayload(tag, chans, bits) ==
    LE16(tag) \o LE16(chans) \o LE32(SampleRate8k)
        \o LE32(SampleRate8k * chans * bytesPerSample(bits))
        \o LE16(chans * bytesPerSample(bits)) \o LE16(bits)

\* an extensible fmt chunk: extension size, valid bits, channel mask,
\* sub-format GUID, trailing extra bytes
fmtPayloadExtensible(sub, chans, bits, validBits, mask, extra) ==
    fmtPayload(wavFormatExtensible, chans, bits) \o LE16(22 + Len(extra))
        \o LE16(validBits) \o LE32(mask) \o makeSubFormatGUID(sub) \o extra

\* the fmt chunk of a WAV49 file: 2 extension bytes, the samples per block
fmtPayloadGSM ==
    LE16(wavFormatGSM610) \o LE16(1) \o LE32(SampleRate8k) \o LE32(1625) \o LE16(gsmBlockSize)
        \o LE16(0) \o LE16(2) \o LE16(gsmSamplesPerBlock)

\* RIFF header with the container size patched in, then the chunks; cut
\* bytes are missing at the end (a truncated file)
makeWav(magic, fmtp, pre, data, post, cut) ==
    LET body == WavFormatID \o writeTestChunk(FmtID, fmtp) \o writeTestChunks(pre)
                  \o writeTestChunk(DataFormatID, data) \o writeTestChunks(post)
        all == magic \o LE32(Len(body)) \o body
    IN  SubSeq(all, 1, Len(all) - cut)

\* payload and audio bytes: non-zero and varied; each is below 128, so that
\* any four of them read as a 32-bit chunk size stay below 2^31
PayloadBytes(n) == [i \in 1..n |-> (i * 16 + 1) % 128]
AudioBytes(n) == [i \in 1..n |-> (i * 37 + 64) % 128]
GsmBlocks(nblocks, tail) ==
    [i \in 1..(nblocks * gsmBlockSize + tail) |-> (i * 7 + ((i - 1) \div gsmBlockSize)) % 128]

Junk(n) == [id |-> CIDJunk, data |-> PayloadBytes(n)]
Xtra(n) == [id |-> CIDXtra, data |-> PayloadBytes(n)]
Fact(n) == [id |-> CIDFact, data |-> LE32(n)]

\* a LIST chunk with an INFO list that holds the artist
ListInfo(artist) ==
    [id |-> CIDList, data |-> CIDInfo \o markerIART \o LE32(Len(artist) + 1) \o artist \o <<0>>]

PayloadLens == 0..MaxPayload
Cuts == 0..MaxTruncate
\* the sample counts a fact chunk declares for one or two blocks of GSM
FactCounts == {250, 320, 500}

PCM8Fmt == fmtPayload(wavFormatPCM, 1, 8)
PCM16Fmt == fmtPayload(wavFormatPCM, 1, 16)

\* unknown chunks on both sides of 16-bit audio
ContainersUnknown ==
    {makeWav(RiffID, PCM16Fmt, <<Junk(n)>>, AudioBytes(4), <<Xtra(m)>>, 0) :
        n \in PayloadLens, m \in {MaxPayload}}
    \cup {makeWav(RiffID, PCM16Fmt, <<Junk(1), Xtra(2)>>, AudioBytes(2), <<Xtra(MaxPayload), Junk(0)>>, 0),
          makeWav(RiffID, PCM16Fmt, <<>>, AudioBytes(2), <<Xtra(1)>>, 0)}

\* audio of every length, whole samples or not, complete or truncated, and
\* the centre and the two ends of the 8-bit range
ContainersAudio ==
    {makeWav(RiffID, fmtPayload(wavFormatPCM, 1, bits), <<>>, AudioBytes(n), <<>>, cut) :
        bits \in {8, 16}, n \in 0..MaxPayload, cut \in Cuts}
    \cup {makeWav(RiffID, fmtPayload(wavFormatPCM, 1, 24), <<>>, AudioBytes(n), <<>>, 0) : n \in {3, 4}}
    \cup {makeWav(RiffID, PCM16Fmt, <<>>, AudioBytes(n), <<Xtra(2)>>, 0) : n \in {1, 3}}
    \cup {makeWav(RiffID, PCM8Fmt, <<>>, <<128, 0, 255>>, <<>>, 0)}

\* the compressed formats without a decoder, at several bit depths, and
\* the extensible fmt chunk
ContainersFormats ==
    {makeWav(RiffID, fmtPayload(t, 1, b), <<>>, AudioBytes(4), <<>>, 0) :
        t \in {wavFormatTrueSpeech, wavFormatVoxware}, b \in {1, 16}}
    \cup {makeWav(RiffID, fmtPayloadExtensible(sub, 1, 16, 12, 4, extra), <<Junk(2)>>, AudioBytes(4), <<>>, 0) :
            sub \in {wavFormatPCM, wavFormatTrueSpeech}, extra \in {<<>>, <<9, 8>>}}

\* GSM 6.10: one or two blocks, a trailing partial block, a fact chunk
ContainersGSM ==
    {makeWav(RiffID, fmtPayloadGSM, <<>>, GsmBlocks(nb, tail), <<>>, 0) : nb \in 1..2, tail \in {0, 3}}
    \cup {makeWav(RiffID, fmtPayloadGSM, <<Fact(n)>>, GsmBlocks(1, 0), <<>>, 0) : n \in FactCounts}
    \cup {makeWav(RiffID, fmtPayloadGSM, <<Fact(500)>>, GsmBlocks(2, 0), <<>>, 0)}

\* containers that are not RIFF, or that have no data chunk
ContainersBroken ==
    {makeWav(RifxID, PCM16Fmt, <<>>, AudioBytes(4), <<>>, 0)}
    \cup {RiffID \o LE32(4 + 24) \o WavFormatID \o writeTestChunk(FmtID, PCM16Fmt)
            \o writeTestChunks(post) : post \in {<<>>, <<Xtra(2)>>}}
    \cup {SubSeq(RiffID \o LE32(4) \o WavFormatID, 1, 12 - cut) : cut \in Cuts}

\* an INFO list after the audio or before it, next to an unknown chunk
ContainersMetadata ==
    {makeWav(RiffID, PCM16Fmt, <<Junk(2)>>, AudioBytes(2), <<ListInfo(<<97>>)>>, 0),
     makeWav(RiffID, PCM16Fmt, <<ListInfo(<<97, 98>>)>>, AudioBytes(2), <<Xtra(2)>>, 0)}

\* RIFF containers of another form type that carry a fmt and a data chunk
ContainersWrongForm ==
    {RiffID \o LE32(4 + 24 + 8 + n) \o AviFormatID \o writeTestChunk(FmtID, PCM16Fmt)
        \o writeTestChunk(DataFormatID, AudioBytes(n)) : n \in {2}}

Containers ==
    ContainersUnknown \cup ContainersAudio \cup ContainersFormats \cup ContainersGSM \cup ContainersBroken
        \cup ContainersWrongForm \cup ContainersMetadata

-----------------------------------------------------------------------------
(* The decoder session as a state machine                                  *)

\* buffer sizes handed to PCMBuffer
BufSizes == 1..MaxBuf
GsmBufSizes == {200, 1024}
IsGSMFile(f) == Slice(f, 20, 2) = LE16(wavFormatGSM610)

NoEncoder == Nil
\* the object store is used by the copying accessors only
NoRef == 0
NoHeap == [mem |-> <<>>, op |-> "none"]
\* calc holds the arguments and the result of a function applied on its own
NoCalc == [op |-> "none"]

Result(op, e, n) == [op |-> op, err |-> e, n |-> n]

Init ==
    /\ file \in Containers
    /\ dec = NewDecoder
    /\ ret = Result("NewDecoder", NoErr, 0)
    /\ streamed = <<>>
    /\ phase = "new"
    /\ enc = NoEncoder
    /\ eret = Result("none", NoErr, 0)
    /\ appended = 0
    /\ closed = 0
    /\ calls = 0
    /\ heap = NoHeap
    /\ calc = NoCalc

EncUnchanged == UNCHANGED <<enc, eret, appended, closed, calls, heap, calc>>

\* phase follows a session that only streams: "new" until the first
\* PCMBuffer, "stream" while PCMBuffer delivers, "end" once it has returned
\* 0 without an error, "other" as soon as anything else has happened
DoReadInfo ==
    /\ dec' = ReadInfo(file, dec)
    /\ ret' = Result("ReadInfo", dec'.err, 0)
    /\ phase' = IF phase = "new" THEN "new" ELSE "other"
    /\ UNCHANGED <<file, streamed>>
    /\ EncUnchanged

DoReadMetadata ==
    /\ dec' = ReadMetadata(file, dec)
    /\ ret' = Result("ReadMetadata", dec'.err, 0)
    /\ phase' = "other"
    /\ UNCHANGED <<file, streamed>>
    /\ EncUnchanged

\* raw chunk iteration is explored on the PCM containers; a GSM session
\* uses the decoding operations
DoNextChunk ==
    /\ ~IsGSMFile(file)
    /\ \E r \in {NextChunk(file, dec)} :
        /\ dec' = r.d
        /\ ret' = Result("NextChunk", r.err, 0)
        /\ phase' = "other"
        /\ UNCHANGED <<file, streamed>>
        /\ EncUnchanged

DoFwdToPCM ==
    \E r \in {FwdToPCM(file, dec)} :
        /\ dec' = r.d
        /\ ret' = Result("FwdToPCM", r.err, 0)
        /\ phase' = "other"
        /\ UNCHANGED <<file, streamed>>
        /\ EncUnchanged

DoPCMBuffer ==
    \E size \in (IF IsGSMFile(file) THEN GsmBufSizes ELSE BufSizes) :
        \E r \in {PCMBuffer(file, dec, size)} :
            /\ dec' = r.d
            /\ ret' = Result("PCMBuffer", r.err, Len(r.data))
            /\ phase' = IF phase \in {"new", "stream"}
                        THEN IF r.err # NoErr THEN "other"
                             ELSE IF r.data = <<>> THEN "end" ELSE "stream"
                        ELSE "other"
            /\ streamed' = IF phase \in {"new", "stream"} THEN streamed \o r.data ELSE streamed
            /\ UNCHANGED file
            /\ EncUnchanged

DoFullPCMBuffer ==
    \E r \in {FullPCMBuffer(file, dec)} :
        /\ dec' = r.d
        /\ ret' = Result("FullPCMBuffer", r.err, Len(r.data))
        /\ phase' = "other"
        /\ UNCHANGED <<file, streamed>>
        /\ EncUnchanged

DoRewind ==
    \E r \in {Rewind(file, dec)} :
        /\ dec' = r.d
        /\ ret' = Result("Rewind", r.err, 0)
        /\ phase' = "other"
        /\ UNCHANGED <<file, streamed>>
        /\ EncUnchanged

Next ==
    \/ DoReadInfo
    \/ DoReadMetadata
    \/ DoNextChunk
    \/ DoFwdToPCM
    \/ DoPCMBuffer
    \/ DoFullPCMBuffer
    \/ DoRewind

Spec == Init /\ [][Next]_vars

-----------------------------------------------------------------------------
(* The encoder session as a state machine                                  *)

RawChunk(id, data, order, beforeData) ==
    [ID |-> id, Size |-> Len(data), Data |-> data, Order |-> order, BeforeData |-> beforeData]

\* bit depth, channels and format tag of the encoders: the PCM depths, a
\* depth without a codec, stereo, IEEE float, and a format without a codec
EncoderFormats ==
    {<<8, 1, wavFormatPCM>>, <<16, 1, wavFormatPCM>>, <<16, 2, wavFormatPCM>>,
     <<24, 1, wavFormatPCM>>, <<12, 1, wavFormatPCM>>,
     <<32, 1, wavFormatIEEEFloat>>, <<8, 1, wavFormatMuLaw>>, <<16, 1, wavFormatGSM610>>,
     <<16, 1, wavFormatTrueSpeech>>}

\* the metadata a caller sets on the encoder before the first call
EncoderMetadata == {Nil, [Artist |-> <<>>], [Artist |-> <<97>>], [Artist |-> <<97, 98>>]}

\* the chunks a caller sets on the encoder before the first call
EncoderChunks ==
    {<<>>,
     <<RawChunk(CIDJunk, PayloadBytes(MaxPayload), 0, TRUE)>>,
     <<RawChunk(CIDXtra, PayloadBytes(2), 0, FALSE)>>,
     <<RawChunk(CIDJunk, PayloadBytes(1), 0, TRUE), RawChunk(CIDXtra, PayloadBytes(MaxPayload), 1, FALSE)>>}

\* a nil encoder, an encoder without a sink, and encoders on an empty sink
Encoders ==
    {Nil, NewEncoder(FALSE, SampleRate8k, 16, 1, wavFormatPCM)}
    \cup {NewEncoder(TRUE, SampleRate8k, c[1], c[2], c[3]) : c \in EncoderFormats}
    \cup {[NewEncoder(TRUE, SampleRate8k, 16, 1, wavFormatPCM)
              EXCEPT !.Metadata = md, !.UnknownChunks = uc] : md \in EncoderMetadata, uc \in EncoderChunks}

\* sample values: 0.5 and -1.25, which is clamped
EncSamples(n) == [i \in 1..n |-> IF i % 2 = 1 THEN <<16384, 15>> ELSE <<-40960, 15>>]

\* the buffers handed to Write: nil, empty, one value, MaxBuf values, for
\* one and two channels
EncBuffers ==
    {Nil} \cup {[NumChannels |-> c, Data |-> EncSamples(n)] : c \in 1..2, n \in {0, 1, MaxBuf}}

\* the dynamic types of the value handed to WriteFrame
FrameKinds == {"float32", "float64", "int16", "int"}

EncInit ==
    /\ file = <<>>
    /\ dec = NewDecoder
    /\ ret = Result("NewDecoder", NoErr, 0)
    /\ streamed = <<>>
    /\ phase = "new"
    /\ enc \in Encoders
    /\ eret = Result("NewEncoder", NoErr, 0)
    /\ appended = 0
    /\ closed = 0
    /\ calls = 0
    /\ heap = NoHeap
    /\ calc = NoCalc

DecUnchanged == UNCHANGED <<file, dec, ret, streamed, phase, heap, calc>>

\* appended counts the sample bytes the calls have added to the sink:
\* what a call writes after the header, the pre-data chunks and the header
\* of the data chunk.  Write panics on an encoder that has no sink once
\* the header flag is set, and so does WriteFrame on any encoder without a
\* sink: those calls are not part of a session.
DoWrite ==
    /\ calls < MaxCalls
    /\ enc # Nil
    /\ enc.w \/ ~enc.wroteHeader
    /\ \E buf \in EncBuffers :
        \E r \in {Write(enc, buf)} :
            /\ enc' = r.e
            /\ eret' = Result("Write", r.err, 0)
            /\ appended' = IF WriteProlog(enc).err # NoErr THEN appended
                           ELSE appended + Len(r.e.out) - Len(WriteProlog(enc).e.out)
            /\ calls' = calls + 1
            /\ UNCHANGED closed
            /\ DecUnchanged

DoWriteFrame ==
    /\ calls < MaxCalls
    /\ enc # Nil
    /\ enc.w
    /\ \E kind \in FrameKinds :
        \E r \in {WriteFrame(enc, kind, EncSamples(1)[1])} :
            /\ enc' = r.e
            /\ eret' = Result("WriteFrame", r.err, 0)
            /\ appended' = appended + Len(r.e.out) - Len(WriteFrameProlog(enc).out)
            /\ calls' = calls + 1
            /\ UNCHANGED closed
            /\ DecUnchanged

\* closed counts the calls of Close that have run on an encoder with a sink
DoClose ==
    /\ calls < MaxCalls
    /\ \E r \in {Close(enc)} :
        /\ enc' = r.e
        /\ eret' = Result("Close", r.err, 0)
        /\ closed' = IF enc # Nil /\ enc.w /\ r.err = NoErr THEN closed + 1 ELSE closed
        /\ calls' = calls + 1
        /\ UNCHANGED appended
        /\ DecUnchanged

EncNext ==
    \/ DoWrite
    \/ DoWriteFrame
    \/ DoClose

SpecEnc == EncInit /\ [][EncNext]_vars

-----------------------------------------------------------------------------
(* The decode-encode round trip of the tests: ReadMetadata, Rewind,        *)
(* FullPCMBuffer, NewEncoderFromDecoder, Write, Close, each step taken     *)
(* when the step before it has returned without an error                   *)

\* a 32-bit size field as a number; a field of 2^31 or more is beyond every
\* output of the model and reads as the largest number
SizeField(b) == IF Len(b) = 4 /\ b[4] >= 128 THEN 2147483647 ELSE LEVal(b)

\* parseWavChunks of the round-trip test: identifier, declared size and
\* payload of every chunk, walking with the pad byte after an odd size
RECURSIVE parseWavChunksFrom(_, _, _)
parseWavChunksFrom(data, offset, chunks) ==
    IF offset + 8 > Len(data) THEN [chunks |-> chunks, err |-> NoErr]
    ELSE Let(SizeField(Slice(data, offset + 4, 4)), LAMBDA size :
             IF offset + 8 + size > Len(data)
             THEN [chunks |-> <<>>, err |-> ErrArg("chunk exceeds file size", Slice(data, offset, 4))]
             ELSE Let(Append(chunks, [id |-> Slice(data, offset, 4), size |-> size,
                                      data |-> Slice(data, offset + 8, size)]), LAMBDA chunks2 :
                  Let(offset + 8 + size + (size % 2), LAMBDA next :
                      parseWavChunksFrom(data, next, chunks2))))

parseWavChunks(data) ==
    IF Len(data) < 12 THEN [chunks |-> <<>>, err |-> Err0("file too small")]
    ELSE IF Slice(data, 0, 4) # RiffID \/ Slice(data, 8, 4) # WavFormatID
    THEN [chunks |-> <<>>, err |-> Err0("invalid riff/wave header")]
    ELSE parseWavChunksFrom(data, 12, <<>>)

\* 16-bit audio between unknown chunks of every length, and extensible fmt
\* chunks with and without bytes after the sub-format
ContainersRT ==
    {makeWav(RiffID, PCM16Fmt, <<Junk(n)>>, AudioBytes(4), <<Xtra(m)>>, 0) :
        n \in PayloadLens, m \in PayloadLens}
    \cup {makeWav(RiffID, PCM16Fmt, <<Junk(1), Xtra(2)>>, AudioBytes(2), <<Xtra(MaxPayload), Junk(0)>>, 0)}
    \cup {makeWav(RiffID, fmtPayloadExtensible(wavFormatPCM, 1, 16, vb, mask, extra),
                  <<>>, AudioBytes(4), <<>>, 0) :
            vb \in {12, 16}, mask \in {0, 4}, extra \in {<<>>, <<9, 8>>}}

RTInit ==
    /\ file \in ContainersRT
    /\ dec = NewDecoder
    /\ ret = Result("NewDecoder", NoErr, 0)
    /\ streamed = <<>>
    /\ phase = "new"
    /\ enc = NoEncoder
    /\ eret = Result("none", NoErr, 0)
    /\ appended = 0
    /\ closed = 0
    /\ calls = 0
    /\ heap = NoHeap
    /\ calc = NoCalc

RTReadMetadata ==
    /\ ret.op = "NewDecoder"
    /\ DoReadMetadata

RTRewind ==
    /\ ret.op = "ReadMetadata"
    /\ Err(dec) = NoErr
    /\ DoRewind

\* streamed holds the buffer FullPCMBuffer returns
RTFullPCMBuffer ==
    /\ ret.op = "Rewind"
    /\ ret.err = NoErr
    /\ \E r \in {FullPCMBuffer(file, dec)} :
        /\ dec' = r.d
        /\ ret' = Result("FullPCMBuffer", r.err, Len(r.data))
        /\ streamed' = r.data
        /\ phase' = "other"
        /\ UNCHANGED file
        /\ EncUnchanged

RTNewEncoderFromDecoder ==
    /\ ret.op = "FullPCMBuffer"
    /\ ret.err = NoErr
    /\ eret.op = "none"
    /\ enc' = NewEncoderFromDecoder(TRUE, dec)
    /\ eret' = Result("NewEncoderFromDecoder", NoErr, 0)
    /\ UNCHANGED <<appended, closed, calls>>
    /\ DecUnchanged

RTWrite ==
    /\ eret.op = "NewEncoderFromDecoder"
    /\ \E r \in {Write(enc, [NumChannels |-> dec.NumChans, Data |-> streamed])} :
        /\ enc' = r.e
        /\ eret' = Result("Write", r.err, 0)
        /\ appended' = appended + Len(r.e.out) - Len(WriteProlog(enc).e.out)
        /\ calls' = calls + 1
        /\ UNCHANGED closed
        /\ DecUnchanged

RTClose ==
    /\ eret.op = "Write"
    /\ eret.err = NoErr
    /\ DoClose

RTNext ==
    \/ RTReadMetadata
    \/ RTRewind
    \/ RTFullPCMBuffer
    \/ RTNewEncoderFromDecoder
    \/ RTWrite
    \/ RTClose

SpecRT == RTInit /\ [][RTNext]_vars

-----------------------------------------------------------------------------
(* The copying accessors (FormatChunk, RawChunks, SetRawChunks) and         *)
(* NewEncoderFromDecoder over a store of objects.  A slice or a pointer is *)
(* a reference into the store, so that a copy that shares a backing array  *)
(* with its source differs from one that does not.  mem is the sequence of *)
(* objects; a reference is an index into it, NoRef for nil.                *)

\* the objects: a byte slice, a slice of RawChunk, FmtExtensible, FmtChunk
BytesObj(v) == [k |-> "bytes", v |-> v]
ChunksObj(v) == [k |-> "chunks", v |-> v]
ExtObj(validBits, mask, sub, extra) ==
    [k |-> "ext", ValidBitsPerSample |-> validBits, ChannelMask |-> mask, SubFormat |-> sub,
     ExtraData |-> extra]
FmtObj(tag, extra, ext) == [k |-> "fmt", FormatTag |-> tag, ExtraData |-> extra, Extensible |-> ext]

\* a new object in the store
Alloc(mem, obj) == [mem |-> Append(mem, obj), ref |-> Len(mem) + 1]

\* a byte slice handed on as it is: the same backing array
CloneBytesShared(mem, a) == [mem |-> mem, ref |-> a]

\* append([]byte(nil), src...): nil for an empty source, a new backing
\* array with the same bytes otherwise
CloneBytes(mem, a) ==
    IF a = NoRef \/ mem[a].v = <<>> THEN [mem |-> mem, ref |-> NoRef]
    ELSE Alloc(mem, BytesObj(mem[a].v))

\* FmtChunk.Clone
FmtChunkClone(mem, a) ==
    IF a = NoRef THEN [mem |-> mem, ref |-> NoRef]
    ELSE Let(CloneBytes(mem, mem[a].ExtraData), LAMBDA x :
             IF mem[a].Extensible = NoRef
             THEN Alloc(x.mem, [mem[a] EXCEPT !.ExtraData = x.ref])
             ELSE Let(CloneBytes(x.mem, mem[mem[a].Extensible].ExtraData), LAMBDA y :
                  Let(Alloc(y.mem, [mem[mem[a].Extensible] EXCEPT !.ExtraData = y.ref]), LAMBDA ext :
                      Alloc(ext.mem, [mem[a] EXCEPT !.ExtraData = x.ref, !.Extensible = ext.ref]))))

\* RawChunk.Clone
RawChunkClone(mem, c) ==
    Let(CloneBytes(mem, c.Data), LAMBDA x : [mem |-> x.mem, chunk |-> [c EXCEPT !.Data = x.ref]])

\* cloneRawChunks: nil for an empty slice, else a new slice of clones
RECURSIVE cloneRawChunksFrom(_, _, _, _)
cloneRawChunksFrom(mem, chunks, i, out) ==
    IF i > Len(chunks) THEN [mem |-> mem, out |-> out]
    ELSE Let(RawChunkClone(mem, chunks[i]), LAMBDA c :
         Let(Append(out, c.chunk), LAMBDA out2 :
             cloneRawChunksFrom(c.mem, chunks, i + 1, out2)))

cloneRawChunks(mem, a) ==
    IF a = NoRef \/ mem[a].v = <<>> THEN [mem |-> mem, ref |-> NoRef]
    ELSE Let(cloneRawChunksFrom(mem, mem[a].v, 1, <<>>), LAMBDA r :
             Alloc(r.mem, ChunksObj(r.out)))

\* what a reference stands for, with every reference below it followed
DeepBytes(mem, a) == IF a = NoRef THEN <<>> ELSE mem[a].v
DeepChunks(mem, a) ==
    IF a = NoRef THEN <<>>
    ELSE [i \in 1..Len(mem[a].v) |->
            [ID |-> mem[a].v[i].ID, Data |-> DeepBytes(mem, mem[a].v[i].Data),
             BeforeData |-> mem[a].v[i].BeforeData]]
DeepExt(mem, a) ==
    IF a = NoRef THEN Nil
    ELSE [ValidBitsPerSample |-> mem[a].ValidBitsPerSample, ChannelMask |-> mem[a].ChannelMask,
          SubFormat |-> mem[a].SubFormat, ExtraData |-> DeepBytes(mem, mem[a].ExtraData)]
DeepFmt(mem, a) ==
    IF a = NoRef THEN Nil
    ELSE [FormatTag |-> mem[a].FormatTag, ExtraData |-> DeepBytes(mem, mem[a].ExtraData),
          Extensible |-> DeepExt(mem, mem[a].Extensible)]

\* the stores after one write of the caller through a reference it holds:
\* an element or a payload byte of a chunk slice, a field of a fmt chunk or
\* of its extension, a byte of their extra data
WritesThroughChunks(mem, a) ==
    IF a = NoRef \/ mem[a].v = <<>> THEN {}
    ELSE {[mem EXCEPT ![a].v[1].ID = CIDCart]}
         \cup (IF mem[a].v[1].Data = NoRef THEN {}
               ELSE {[mem EXCEPT ![mem[a].v[1].Data].v[1] = 9]})

WritesThroughFmt(mem, a) ==
    IF a = NoRef THEN {}
    ELSE {[mem EXCEPT ![a].FormatTag = wavFormatPCM]}
         \cup (IF mem[a].ExtraData = NoRef THEN {}
               ELSE {[mem EXCEPT ![mem[a].ExtraData].v[1] = 7]})
         \cup (IF mem[a].Extensible = NoRef THEN {}
               ELSE {[mem EXCEPT ![mem[a].Extensible].ChannelMask = 4]}
                    \cup (IF mem[mem[a].Extensible].ExtraData = NoRef THEN {}
                          ELSE {[mem EXCEPT ![mem[mem[a].Extensible].ExtraData].v[1] = 7]}))

WritesThrough(mem, h) ==
    IF h[1] = "chunks" THEN WritesThroughChunks(mem, h[2]) ELSE WritesThroughFmt(mem, h[2])

\* the decoders of the API tests: an extensible fmt chunk with extra bytes
\* or a plain one, one preserved chunk or none; the caller holds a chunk
\* slice of its own
HeapStart(extensible, preserved) ==
    Let(<<BytesObj(<<4, 5, 6>>),
          ChunksObj(<<[ID |-> CIDXtra, Data |-> 1, BeforeData |-> FALSE]>>),
          BytesObj(<<1, 2, 3>>),
          ChunksObj(IF preserved THEN <<[ID |-> CIDJunk, Data |-> 3, BeforeData |-> TRUE]>> ELSE <<>>),
          BytesObj(<<9, 8>>),
          ExtObj(16, 3, makeSubFormatGUID(wavFormatPCM), 5)>>, LAMBDA base :
        [mem |-> Append(base, IF extensible THEN FmtObj(wavFormatExtensible, NoRef, 6)
                                            ELSE FmtObj(wavFormatPCM, 5, NoRef)),
         dFmt |-> 7, dChunks |-> 4,
         hasEnc |-> FALSE, eFmt |-> NoRef, eChunks |-> NoRef,
         held |-> {<<"chunks", 2>>},
         op |-> "none", n |-> 0])

HeapInit ==
    /\ file = <<>>
    /\ dec = NewDecoder
    /\ ret = Result("NewDecoder", NoErr, 0)
    /\ streamed = <<>>
    /\ phase = "new"
    /\ enc = NoEncoder
    /\ eret = Result("none", NoErr, 0)
    /\ appended = 0
    /\ closed = 0
    /\ calls = 0
    /\ heap \in {HeapStart(x, p) : x \in BOOLEAN, p \in BOOLEAN}
    /\ calc = NoCalc

HeapOnly == UNCHANGED <<file, dec, ret, streamed, phase, enc, eret, appended, closed, calls, calc>>

HeapStep(op) == [heap EXCEPT !.op = op, !.n = @ + 1]

\* Decoder.FormatChunk and Encoder.FormatChunk: the caller gets the clone
DoDecoderFormatChunk ==
    /\ heap.n < MaxCalls
    /\ \E r \in {FmtChunkClone(heap.mem, heap.dFmt)} :
        heap' = [HeapStep("Decoder.FormatChunk") EXCEPT
                    !.mem = r.mem, !.held = @ \cup {<<"fmt", r.ref>>}]
    /\ HeapOnly

DoEncoderFormatChunk ==
    /\ heap.n < MaxCalls
    /\ heap.hasEnc
    /\ \E r \in {FmtChunkClone(heap.mem, heap.eFmt)} :
        heap' = [HeapStep("Encoder.FormatChunk") EXCEPT
                    !.mem = r.mem, !.held = @ \cup {<<"fmt", r.ref>>}]
    /\ HeapOnly

\* Decoder.RawChunks and Encoder.RawChunks
DoDecoderRawChunks ==
    /\ heap.n < MaxCalls
    /\ \E r \in {cloneRawChunks(heap.mem, heap.dChunks)} :
        heap' = [HeapStep("Decoder.RawChunks") EXCEPT
                    !.mem = r.mem, !.held = @ \cup {<<"chunks", r.ref>>}]
    /\ HeapOnly

DoEncoderRawChunks ==
    /\ heap.n < MaxCalls
    /\ heap.hasEnc
    /\ \E r \in {cloneRawChunks(heap.mem, heap.eChunks)} :
        heap' = [HeapStep("Encoder.RawChunks") EXCEPT
                    !.mem = r.mem, !.held = @ \cup {<<"chunks", r.ref>>}]
    /\ HeapOnly

\* Decoder.SetRawChunks and Encoder.SetRawChunks with a slice the caller holds
DoDecoderSetRawChunks ==
    /\ heap.n < MaxCalls
    /\ \E h \in heap.held :
        /\ h[1] = "chunks"
        /\ \E r \in {cloneRawChunks(heap.mem, h[2])} :
            heap' = [HeapStep("Decoder.SetRawChunks") EXCEPT !.mem = r.mem, !.dChunks = r.ref]
    /\ HeapOnly

DoEncoderSetRawChunks ==
    /\ heap.n < MaxCalls
    /\ heap.hasEnc
    /\ \E h \in heap.held :
        /\ h[1] = "chunks"
        /\ \E r \in {cloneRawChunks(heap.mem, h[2])} :
            heap' = [HeapStep("Encoder.SetRawChunks") EXCEPT !.mem = r.mem, !.eChunks = r.ref]
    /\ HeapOnly

\* NewEncoderFromDecoder: a clone of the fmt chunk and of every preserved chunk
DoNewEncoderFromDecoder ==
    /\ heap.n < MaxCalls
    /\ ~heap.hasEnc
    /\ \E f \in {FmtChunkClone(heap.mem, heap.dFmt)} :
        \E c \in {cloneRawChunks(f.mem, heap.dChunks)} :
            heap' = [HeapStep("NewEncoderFromDecoder") EXCEPT
                        !.mem = c.mem, !.hasEnc = TRUE, !.eFmt = f.ref, !.eChunks = c.ref]
    /\ HeapOnly

\* the caller writes through a reference it holds
DoWriteThroughHeld ==
    /\ heap.n < MaxCalls
    /\ \E h \in heap.held :
        \E m \in WritesThrough(heap.mem, h) :
            heap' = [HeapStep("WriteThroughHeld") EXCEPT !.mem = m]
    /\ HeapOnly

\* the caller writes into the fmt chunk or the preserved chunks of the
\* decoder an encoder was made from
DoWriteIntoDecoder ==
    /\ heap.n < MaxCalls
    /\ heap.hasEnc
    /\ \E m \in WritesThroughFmt(heap.mem, heap.dFmt) \cup WritesThroughChunks(heap.mem, heap.dChunks) :
        heap' = [HeapStep("WriteIntoDecoder") EXCEPT !.mem = m]
    /\ HeapOnly

HeapNext ==
    \/ DoDecoderFormatChunk
    \/ DoEncoderFormatChunk
    \/ DoDecoderRawChunks
    \/ DoEncoderRawChunks
    \/ DoDecoderSetRawChunks
    \/ DoEncoderSetRawChunks
    \/ DoNewEncoderFromDecoder
    \/ DoWriteThroughHeld
    \/ DoWriteIntoDecoder

SpecAPI == HeapInit /\ [][HeapNext]_vars

-----------------------------------------------------------------------------
(* Properties of the decoder session                                       *)

\* the streaming loop of the tests: PCMBuffer with one buffer size until a
\* call returns 0 or an error; the samples of all the calls in order
RECURSIVE StreamAllLoop(_, _, _, _)
StreamAllLoop(f, d, size, out) ==
    Let(PCMBuffer(f, d, size), LAMBDA r :
        IF r.err # NoErr \/ r.data = <<>> THEN out
        ELSE Let(out \o r.data, LAMBDA out2 : StreamAllLoop(f, r.d, size, out2)))

StreamAll(f, d, size) == StreamAllLoop(f, d, size, <<>>)

SizesFor(f) == IF IsGSMFile(f) THEN GsmBufSizes ELSE BufSizes

\* C1: on a new decoder, the samples of successive PCMBuffer calls, whatever
\* the buffer sizes, up to the first call that returns 0, are the samples
\* a single FullPCMBuffer call on a new decoder over the same container returns
C1_StreamingEqualsBulk ==
    phase = "end" => streamed = FullPCMBuffer(file, NewDecoder).data

\* C3: right after Rewind, whatever the session did before, decoding the
\* whole audio again gives the samples of a first decode of the container:
\* in bulk mode those of FullPCMBuffer on a new decoder, in streaming mode
\* those of the same streaming loop on a new decoder
C3_RewindThenDecodeAgain ==
    ret.op = "Rewind" =>
        /\ FullPCMBuffer(file, dec).data = FullPCMBuffer(file, NewDecoder).data
        /\ \A size \in SizesFor(file) : StreamAll(file, dec, size) = StreamAll(file, NewDecoder, size)

\* a GSM session that streamed 200 of the first block's 320 samples, so that
\* 120 were left over in its block decoder, and was then rewound
C3_Witness ==
    /\ ret.op = "Rewind" /\ ret.err = NoErr
    /\ IsGSMFile(file) /\ Len(streamed) = 200
    /\ Len(StreamAll(file, dec, 200)) >= gsmSamplesPerBlock

C10_FirstErrorIsSticky ==
    [][(Err(dec) # NoErr /\ ret'.op # "Rewind") => Err(dec') = Err(dec)]_vars

-----------------------------------------------------------------------------
(* Properties of the encoder session                                       *)

\* the bytes of the sink of an encoder, none for a nil encoder
Out(e) == IF e = Nil THEN <<>> ELSE e.out

\* the offset of the header of the first chunk named id that the walk over
\* the declared sizes reaches from offset off, -1 if there is none
RECURSIVE FindChunk(_, _, _)
FindChunk(out, off, id) ==
    IF off + 8 > Len(out) THEN -1
    ELSE IF Slice(out, off, 4) = id THEN off
    ELSE Let(SizeField(Slice(out, off + 4, 4)), LAMBDA size :
             IF off + 8 + size > Len(out) THEN -1
             ELSE Let(off + 8 + size + (size % 2), LAMBDA next : FindChunk(out, next, id)))

\* from offset off on, out is a sequence of whole chunks in which every
\* payload of odd length is followed by one zero byte
RECURSIVE WellPaddedFrom(_, _)
WellPaddedFrom(out, off) ==
    IF off >= Len(out) THEN off = Len(out)
    ELSE IF off + 8 > Len(out) THEN FALSE
    ELSE Let(off + 8 + SizeField(Slice(out, off + 4, 4)), LAMBDA end :
             IF end > Len(out) THEN FALSE
             ELSE IF (end - off) % 2 = 0 THEN WellPaddedFrom(out, end)
             ELSE end < Len(out) /\ out[end + 1] = 0 /\ WellPaddedFrom(out, end + 1))

\* the first Close of a session on an encoder with a sink has just returned
FirstCloseDone == eret.op = "Close" /\ closed = 1 /\ eret.err = NoErr

\* the size field of the data chunk in the output
DataSizeField(out) == Slice(out, FindChunk(out, 12, DataFormatID) + 4, 4)

\* C6: after the first Close on an encoder whose sink started empty, the
\* little-endian field at offset 4 of the output is the length of the
\* output minus 8, whatever calls came before, none included.
C6_RiffSizeIsLengthMinus8 ==
    FirstCloseDone => Slice(enc.out, 4, 4) = LE32(Len(enc.out) - 8)

\* C7: after the first Close, the size in the header of the data chunk is
\* the number of sample bytes the calls have appended to the data chunk.
C7_DataSizeIsAppendedBytes ==
    (FirstCloseDone /\ enc.pcmChunkStarted) => DataSizeField(enc.out) = LE32(appended)

\* C8: in the output of a closed session whose data chunk declares the
\* bytes it holds, every chunk of odd payload length is followed by one
\* zero pad byte outside its declared size, so every chunk header is at an
\* even offset.
C8_OddChunksArePadded ==
    (FirstCloseDone /\ enc.wroteHeader
        /\ (enc.pcmChunkStarted => DataSizeField(enc.out) = LE32(appended)))
    => WellPaddedFrom(enc.out, 12)

\* C9: Close on a nil encoder, on an encoder without a sink or on an
\* encoder that has been closed returns no error and leaves every byte of
\* the output as it was, adding none.
C9_CloseAgainIsNoOp ==
    [][(eret'.op = "Close" /\ calls' = calls + 1 /\ (enc = Nil \/ ~enc.w \/ closed > 0))
        => (eret'.err = NoErr /\ Out(enc') = Out(enc))]_vars

-----------------------------------------------------------------------------
(* Properties of the round trip                                            *)

\* the position of the data chunk in a chunk list, 0 if it has none
DataIndex(chunks) ==
    IF \E i \in 1..Len(chunks) : chunks[i].id = DataFormatID
    THEN CHOOSE i \in 1..Len(chunks) :
            /\ chunks[i].id = DataFormatID
            /\ \A j \in 1..(i - 1) : chunks[j].id # DataFormatID
    ELSE 0

\* the chunks other than fmt before the data chunk, and those after it
ChunksBefore(chunks) ==
    SelectSeq(SubSeq(chunks, 1, DataIndex(chunks) - 1), LAMBDA c : c.id # FmtID)
ChunksAfter(chunks) == SubSeq(chunks, DataIndex(chunks) + 1, Len(chunks))

RoundTripDone == ret.op = "FullPCMBuffer" /\ eret.op = "Close" /\ eret.err = NoErr

\* C2: every unknown chunk of the container is in the re-encoded output
\* with its identifier, its declared size and its payload, on its side of
\* the data chunk and in its order, whatever the length of its payload.
C2_UnknownChunksSurvive ==
    RoundTripDone =>
        /\ parseWavChunks(enc.out).err = NoErr
        /\ ChunksBefore(parseWavChunks(enc.out).chunks) = ChunksBefore(parseWavChunks(file).chunks)
        /\ ChunksAfter(parseWavChunks(enc.out).chunks) = ChunksAfter(parseWavChunks(file).chunks)

\* the fmt chunk of a container starts at offset 12: its format tag is at
\* offset 20, the extension size at 36, then valid bits, channel mask and
\* the 16 bytes of the sub-format
HasExtensibleFmt(bytes) ==
    /\ Slice(bytes, 12, 4) = FmtID
    /\ Slice(bytes, 20, 2) = LE16(wavFormatExtensible)
    /\ LEVal(Slice(bytes, 36, 2)) >= 22
ExtensibleFields(bytes) == Slice(bytes, 38, 22)
SubFormatTag(bytes) == LEVal(Slice(bytes, 44, 2))

\* C4: once the encoder made from the decoder of an extensible container
\* has written its header, the output has an extensible fmt chunk with
\* the valid bits, channel mask and sub-format of the container, and the
\* effective format tag of decoder and encoder is the 16-bit value at the
\* start of the sub-format.
C4_ExtensibleFmtSurvives ==
    (HasExtensibleFmt(file) /\ enc # Nil /\ enc.wroteHeader) =>
        /\ HasExtensibleFmt(enc.out)
        /\ ExtensibleFields(enc.out) = ExtensibleFields(file)
        /\ dec.WavAudioFormat = SubFormatTag(file)
        /\ effectiveAudioFormat(enc) = SubFormatTag(enc.out)

C4_Witness ==
    /\ RoundTripDone
    /\ HasExtensibleFmt(file)
    /\ LEVal(Slice(file, 36, 2)) > 22
    /\ ExtensibleFields(file) = LE16(12) \o LE32(4) \o makeSubFormatGUID(wavFormatPCM)
    /\ ExtensibleFields(enc.out) = ExtensibleFields(file)
    /\ appended = 4

-----------------------------------------------------------------------------
(* Properties of header parsing and of the chunk walk                      *)

\* the format fields of a session, as readHeaders fills them in
FormatFields(d) ==
    <<d.NumChans, d.BitDepth, d.SampleRate, d.AvgBytesPerSec, d.WavAudioFormat, d.FmtChunk>>

\* C11: when the stream does not start with RIFF or the form type at offset
\* 8 is not WAVE, header parsing (ReadInfo) fails and fills in no format
\* field
C11_BadContainerIsRejected ==
    (ret.op = "ReadInfo" /\ (Slice(file, 0, 4) # RiffID \/ Slice(file, 8, 4) # WavFormatID))
    => ret.err # NoErr /\ FormatFields(dec) = FormatFields(NewDecoder)

\* the container has a RIFF/WAVE header and a fmt chunk, and none of its
\* chunks is a data chunk
HasNoDataChunk(f) ==
    Let(parseWavChunks(f), LAMBDA p :
        /\ p.err = NoErr
        /\ \E i \in 1..Len(p.chunks) : p.chunks[i].id = FmtID
        /\ \A i \in 1..Len(p.chunks) : p.chunks[i].id # DataFormatID)

\* C12: FwdToPCM on a container with a valid header and no data chunk
\* returns ErrPCMDataNotFound
C12_NoDataChunkIsNotFound ==
    (ret.op = "FwdToPCM" /\ HasNoDataChunk(file)) => ret.err = ErrPCMDataNotFound

\* C13: once the format fields are filled in, a further ReadInfo reads
\* nothing, leaves the read cursor where it is and changes nothing in the
\* session
C13_ReadInfoAgainIsNoOp ==
    [][(ret'.op = "ReadInfo" /\ dec.NumChans > 0) => dec' = dec]_vars

\* C14: a ReadMetadata call on a session whose metadata is set reads
\* nothing and leaves the metadata, the preserved unknown chunks, the read
\* cursor and the rest of the session as they were
C14_ReadMetadataAgainIsNoOp ==
    [][(ret'.op = "ReadMetadata" /\ dec.Metadata # Nil) => dec' = dec]_vars

\* the INFO list sits after the audio, so that only a ReadMetadata call can
\* have set the metadata and kept the unknown chunk; the session was then
\* rewound to the audio, and the ReadMetadata call after that has left the
\* cursor there
C14_Witness ==
    /\ file = makeWav(RiffID, PCM16Fmt, <<Junk(2)>>, AudioBytes(2), <<ListInfo(<<97>>)>>, 0)
    /\ ret.op = "ReadMetadata"
    /\ dec.Metadata = [Artist |-> <<97>>]
    /\ Len(dec.UnknownChunks) = 1
    /\ dec.pcmDataAccessed /\ dec.pos < Len(file)

-----------------------------------------------------------------------------
(* Properties of Rewind and of the preserved chunks                        *)

\* the walker, the format fields, the located data chunk, the cached error,
\* the compressed-sample count and the GSM state of a session
WalkState(d) ==
    <<d.pos, d.parser, FormatFields(d), d.err, d.PCMSize, d.pcmDataAccessed, d.PCMChunk,
      d.CompressedSamples, d.gsmDec>>

\* C15 as stated: Rewind clears all the cached state, the parsed metadata
\* and the preserved unknown chunks included, before it forwards to the
\* audio: after Rewind the session holds what a new decoder holds after
\* FwdToPCM, and no chunk or metadata of the walk before
C15_RewindClearsAllState ==
    ret.op = "Rewind" =>
        /\ WalkState(dec) = WalkState(FwdToPCM(file, NewDecoder).d)
        /\ dec.Metadata = FwdToPCM(file, NewDecoder).d.Metadata
        /\ dec.UnknownChunks = <<>>

\* C15 as the code has it: after Rewind the walker, the format fields, the
\* located data chunk, the cached error, the compressed-sample count and
\* the GSM state are those of a new decoder after FwdToPCM, while the
\* preserved unknown chunks and metadata that was set are kept
C15_RewindKeepsMetadataAndChunks ==
    [][ret'.op = "Rewind" =>
        /\ WalkState(dec') = WalkState(FwdToPCM(file, NewDecoder).d)
        /\ dec'.UnknownChunks = dec.UnknownChunks
        /\ dec.Metadata # Nil => dec'.Metadata = dec.Metadata]_vars

\* a session rewound to the audio after ReadMetadata had walked the whole
\* container, with the artist and the unknown chunk still in it
C15_Witness ==
    /\ file = makeWav(RiffID, PCM16Fmt, <<Junk(2)>>, AudioBytes(2), <<ListInfo(<<97>>)>>, 0)
    /\ ret.op = "Rewind" /\ ret.err = NoErr
    /\ dec.Metadata = [Artist |-> <<97>>]
    /\ Len(dec.UnknownChunks) = 1
    /\ dec.PCMChunk # Nil /\ dec.pos < Len(file)

\* C16: every RawChunk the decoder has captured carries the identifier,
\* the declared size and exactly the declared payload bytes of a chunk of
\* the container; the pad byte after an odd payload is in neither
C16_RawChunkIsDeclaredPayload ==
    Let(parseWavChunks(file), LAMBDA p :
        p.err = NoErr =>
            \A i \in 1..Len(dec.UnknownChunks) :
                /\ dec.UnknownChunks[i].Size = Len(dec.UnknownChunks[i].Data)
                /\ \E j \in 1..Len(p.chunks) :
                      /\ p.chunks[j].id = dec.UnknownChunks[i].ID
                      /\ p.chunks[j].size = dec.UnknownChunks[i].Size
                      /\ p.chunks[j].data = dec.UnknownChunks[i].Data)

-----------------------------------------------------------------------------
(* Properties of the codecs                                                *)

\* the payload of the first chunk of the container with the identifier
WirePayload(f, id) ==
    Let(parseWavChunks(f), LAMBDA p :
        IF \E j \in 1..Len(p.chunks) : p.chunks[j].id = id
        THEN p.chunks[CHOOSE j \in 1..Len(p.chunks) :
                        /\ p.chunks[j].id = id
                        /\ \A k \in 1..(j - 1) : p.chunks[k].id # id].data
        ELSE <<>>)

\* the complete blocks of the data span, and the sample count the fact
\* chunk declares, 0 without a fact chunk
CompleteBlocks(f) == Len(WirePayload(f, DataFormatID)) \div gsmBlockSize
DeclaredSamples(f) == IF WirePayload(f, CIDFact) = <<>> THEN 0 ELSE LEVal(WirePayload(f, CIDFact))

HasNoCodec(e) ==
    Let(effectiveAudioFormat(e), LAMBDA audioFormat :
        CASE audioFormat = wavFormatIEEEFloat -> e.BitDepth \notin {32, 64}
          [] audioFormat \in {wavFormatALaw, wavFormatMuLaw} -> e.BitDepth # 8
          [] audioFormat = wavFormatPCM -> e.BitDepth \notin {8, 16, 24, 32}
          [] OTHER -> TRUE)

\* the explicit errors for a format or a bit depth without a codec
IsUnsupportedFormatError(err) ==
    /\ err.msg # <<>>
    /\ err.msg[1] \in {"unsupported wav format", "unsupported float bit depth",
                       "can't add frames of bit size", "unsupported A-law bit depth",
                       "unsupported mu-law bit depth"}

\* C18: on an encoder whose format has no codec, every Write of a buffer
\* with at least one frame and every WriteFrame, whatever the type of the
\* value, returns an explicit unsupported-format error and appends no
\* sample byte after the header of the data chunk
C18_NoCodecIsExplicitError ==
    (enc # Nil /\ enc.w /\ HasNoCodec(enc)) =>
        /\ \A buf \in EncBuffers \ {Nil} :
              NumFrames(buf) > 0 =>
                  /\ IsUnsupportedFormatError(Write(enc, buf).err)
                  /\ Len(Write(enc, buf).e.out) = Len(WriteProlog(enc).e.out)
        /\ \A kind \in FrameKinds :
              /\ IsUnsupportedFormatError(WriteFrame(enc, kind, EncSamples(1)[1]).err)
              /\ Len(WriteFrame(enc, kind, EncSamples(1)[1]).e.out) = Len(WriteFrameProlog(enc).out)

-----------------------------------------------------------------------------
(* Properties of the copying accessors                                     *)

\* what the decoder and the encoder hold, every reference followed
DecoderHolds(h) == <<DeepFmt(h.mem, h.dFmt), DeepChunks(h.mem, h.dChunks)>>
EncoderHolds(h) == <<DeepFmt(h.mem, h.eFmt), DeepChunks(h.mem, h.eChunks)>>

\* C19: a write of the caller through a fmt chunk or chunk slice it got from
\* FormatChunk or RawChunks, or through the slice it passed to SetRawChunks,
\* changes nothing the decoder or the encoder holds; a write into the
\* decoder after NewEncoderFromDecoder changes nothing the encoder holds
C19_CopiesAreDeep ==
    [][/\ heap'.op = "WriteThroughHeld" =>
            DecoderHolds(heap') = DecoderHolds(heap) /\ EncoderHolds(heap') = EncoderHolds(heap)
       /\ heap'.op = "WriteIntoDecoder" => EncoderHolds(heap') = EncoderHolds(heap)]_vars

\* the caller has overwritten the first payload byte of a chunk slice it
\* holds, and the decoder's preserved chunk of the same identifier still
\* has its own first byte
C19_Witness ==
    /\ heap.op = "WriteThroughHeld"
    /\ \E h \in heap.held :
        /\ h[1] = "chunks" /\ h[2] # NoRef
        /\ DeepChunks(heap.mem, h[2])[1].Data[1] = 9
        /\ DeepChunks(heap.mem, heap.dChunks) # <<>>
        /\ DeepChunks(heap.mem, heap.dChunks)[1].ID = DeepChunks(heap.mem, h[2])[1].ID
        /\ DeepChunks(heap.mem, heap.dChunks)[1].Data[1] # 9

-----------------------------------------------------------------------------
(* Properties of the 8-bit normalization                                   *)

\* the container is 8-bit mono PCM and the session has only streamed, so
\* that sample i of streamed is decoded from byte i of the data chunk
Streams8Bit(i) ==
    /\ phase \in {"stream", "end"}
    /\ Slice(file, 20, 4) = LE16(wavFormatPCM) \o LE16(1)
    /\ Slice(file, 34, 2) = LE16(8)
    /\ i <= Len(WirePayload(file, DataFormatID))

\* the sample value is within 1e-4 of num / den
WithinTenThousandth(val, num, den) ==
    Let(val[1] * den - num * Den(val), LAMBDA diff :
        (IF diff < 0 THEN -diff ELSE diff) * 10000 <= Den(val) * den)

\* C20 as stated: the byte 128 decodes to a value within 1e-4 of 0.0, the
\* byte 0 to -1.0 and the byte 255 to 1.0
C20_Byte128IsZero ==
    \A i \in 1..Len(streamed) :
        Streams8Bit(i) =>
            /\ WirePayload(file, DataFormatID)[i] = 128 => WithinTenThousandth(streamed[i], 0, 1)
            /\ WirePayload(file, DataFormatID)[i] = 0 => streamed[i][1] = -Den(streamed[i])
            /\ WirePayload(file, DataFormatID)[i] = 255 => streamed[i][1] = Den(streamed[i])

\* C20 as the code has it: the byte 128 decodes to a value within 1e-4 of
\* 1/255 (0.0039216), the byte 0 to -1.0 and the byte 255 to 1.0
C20_Byte128IsOne255th ==
    \A i \in 1..Len(streamed) :
        Streams8Bit(i) =>
            /\ WirePayload(file, DataFormatID)[i] = 128 => WithinTenThousandth(streamed[i], 1, 255)
            /\ WirePayload(file, DataFormatID)[i] = 0 => streamed[i][1] = -Den(streamed[i])
            /\ WirePayload(file, DataFormatID)[i] = 255 => streamed[i][1] = Den(streamed[i])

\* the bytes 128, 0 and 255 streamed, one sample each
C20_Witness ==
    /\ Streams8Bit(3)
    /\ WirePayload(file, DataFormatID) = <<128, 0, 255>>
    /\ streamed = <<<<1, 255>>, <<-255, 255>>, <<255, 255>>>>

-----------------------------------------------------------------------------
(* Properties of repeated metadata scans                                   *)

\* C27: a ReadMetadata call that follows a ReadMetadata call of the same
\* session leaves the list of preserved chunks as the first call built it
C27_SecondReadMetadataKeepsChunks ==
    [][(ret.op = "ReadMetadata" /\ ret'.op = "ReadMetadata")
        => dec'.UnknownChunks = dec.UnknownChunks]_vars

-----------------------------------------------------------------------------
(* The 16-bit fixed-point primitives of the GSM decoder (gsm.go).  An      *)
(* int32 intermediate is an integer; the conversion int16(x) keeps the low *)
(* 16 bits.                                                                *)

Int16Min == -32768
Int16Max == 32767

\* the Go conversion int16(x) of an int32 x
ToInt16(x) == ((x + 32768) % 65536) - 32768

\* x << n and x >> n of an int32 x, 0 <= n < 16 (>> keeps the sign)
Shl(x, n) == x * (2 ^ n)
Shr(x, n) == x \div (2 ^ n)

gsmAdd(a, b) ==
    Let(a + b, LAMBDA sum :
        IF sum > 32767 THEN 32767
        ELSE IF sum < -32768 THEN -32768
        ELSE ToInt16(sum))

gsmSub(a, b) ==
    Let(a - b, LAMBDA diff :
        IF diff > 32767 THEN 32767
        ELSE IF diff < -32768 THEN -32768
        ELSE ToInt16(diff))

gsmMultR(a, b) ==
    IF a = -32768 /\ b = -32768 THEN 32767
    ELSE ToInt16(Shr((a * b) + 16384, 15))

gsmAbs(a) ==
    IF a = -32768 THEN 32767
    ELSE IF a < 0 THEN -a
    ELSE a

gsmAsl(a, n) ==
    IF n <= 0 THEN a
    ELSE IF n >= 16 THEN 0
    ELSE ToInt16(Shl(a, n))

gsmAsr(a, n) ==
    IF n <= 0 THEN a
    ELSE IF n >= 16 THEN (IF a < 0 THEN -1 ELSE 0)
    ELSE ToInt16(Shr(a, n))

\* 16-bit operands: the ends of the range, the powers of two next to them,
\* and small values of both signs
GsmOperands == {-32768, -32767, -16385, -16384, -300, -1, 0, 1, 2, 100, 16383, 16384, 32766, 32767}
\* shift counts below, inside and above the width of the operand
GsmShifts == 0..17

Applied(op, a, b, r) == [op |-> op, a |-> a, b |-> b, r |-> r]

CalcInit ==
    /\ file = <<>>
    /\ dec = NewDecoder
    /\ ret = Result("NewDecoder", NoErr, 0)
    /\ streamed = <<>>
    /\ phase = "new"
    /\ enc = NoEncoder
    /\ eret = Result("none", NoErr, 0)
    /\ appended = 0
    /\ closed = 0
    /\ calls = 0
    /\ heap = NoHeap
    /\ calc = NoCalc

\* a behaviour applies one function to one input
CalcOnly ==
    UNCHANGED <<file, dec, ret, streamed, phase, enc, eret, appended, closed, calls, heap>>

DoGsmAdd ==
    /\ calc.op = "none"
    /\ \E a \in GsmOperands, b \in GsmOperands : calc' = Applied("gsmAdd", a, b, gsmAdd(a, b))
    /\ CalcOnly

DoGsmSub ==
    /\ calc.op = "none"
    /\ \E a \in GsmOperands, b \in GsmOperands : calc' = Applied("gsmSub", a, b, gsmSub(a, b))
    /\ CalcOnly

DoGsmMultR ==
    /\ calc.op = "none"
    /\ \E a \in GsmOperands, b \in GsmOperands : calc' = Applied("gsmMultR", a, b, gsmMultR(a, b))
    /\ CalcOnly

DoGsmAbs ==
    /\ calc.op = "none"
    /\ \E a \in GsmOperands : calc' = Applied("gsmAbs", a, 0, gsmAbs(a))
    /\ CalcOnly

DoGsmAsl ==
    /\ calc.op = "none"
    /\ \E a \in GsmOperands, n \in GsmShifts : calc' = Applied("gsmAsl", a, n, gsmAsl(a, n))
    /\ CalcOnly

DoGsmAsr ==
    /\ calc.op = "none"
    /\ \E a \in GsmOperands, n \in GsmShifts : calc' = Applied("gsmAsr", a, n, gsmAsr(a, n))
    /\ CalcOnly

GsmNext ==
    \/ DoGsmAdd
    \/ DoGsmSub
    \/ DoGsmMultR
    \/ DoGsmAbs
    \/ DoGsmAsl
    \/ DoGsmAsr

SpecGsm == CalcInit /\ [][GsmNext]_vars

-----------------------------------------------------------------------------
(* Properties of the GSM fixed-point primitives                            *)

\* the value x clamped to the range of int16
Clamp16(x) == IF x > Int16Max THEN Int16Max ELSE IF x < Int16Min THEN Int16Min ELSE x

\* the exact value of a shifted left, resp. right, by n >= 0 bits; a count
\* of 15 or more empties or saturates an operand of 16 bits
ExactAsl(a, n) == IF n >= 15 THEN a * 32768 ELSE a * (2 ^ n)
ExactAsr(a, n) == IF n >= 16 THEN (IF a < 0 THEN -1 ELSE 0) ELSE a \div (2 ^ n)

\* C26: no primitive wraps: gsmAdd and gsmSub give the clamped exact sum
\* and difference, gsmMultR gives (a*b + 16384) >> 15 with 32767 for
\* (-32768, -32768), gsmAbs(-32768) is 32767, and gsmAsl and gsmAsr give
\* the clamped exactly shifted value for every shift count
C26_NoPrimitiveWraps ==
    /\ calc.op = "gsmAdd" => calc.r = Clamp16(calc.a + calc.b)
    /\ calc.op = "gsmSub" => calc.r = Clamp16(calc.a - calc.b)
    /\ calc.op = "gsmMultR" =>
         calc.r = (IF calc.a = Int16Min /\ calc.b = Int16Min THEN Int16Max
                   ELSE ((calc.a * calc.b) + 16384) \div 32768)
    /\ calc.op = "gsmAbs" => calc.r = (IF calc.a = Int16Min THEN Int16Max
                                       ELSE IF calc.a < 0 THEN -calc.a ELSE calc.a)
    /\ calc.op = "gsmAsl" => calc.r = Clamp16(ExactAsl(calc.a, calc.b))
    /\ calc.op = "gsmAsr" => calc.r = Clamp16(ExactAsr(calc.a, calc.b))

\* the primitives other than the left shift
GsmAllButAslExact ==
    /\ calc.op = "gsmAdd" => calc.r = Clamp16(calc.a + calc.b)
    /\ calc.op = "gsmSub" => calc.r = Clamp16(calc.a - calc.b)
    /\ calc.op = "gsmMultR" =>
         calc.r = (IF calc.a = Int16Min /\ calc.b = Int16Min THEN Int16Max
                   ELSE ((calc.a * calc.b) + 16384) \div 32768)
    /\ calc.op = "gsmAbs" => calc.r = (IF calc.a = Int16Min THEN Int16Max
                                       ELSE IF calc.a < 0 THEN -calc.a ELSE calc.a)
    /\ calc.op = "gsmAsr" => calc.r = Clamp16(ExactAsr(calc.a, calc.b))

-----------------------------------------------------------------------------
(* The sample codecs applied on their own: a stored code is decoded,       *)
(* encoded and decoded again; a value of [-1, 1] is encoded and decoded    *)

\* the (format, bit depth) pairs both the encoder and the decoder support
CodecPairs ==
    {<<wavFormatPCM, 8>>, <<wavFormatPCM, 16>>, <<wavFormatPCM, 24>>, <<wavFormatPCM, 32>>,
     <<wavFormatIEEEFloat, 32>>, <<wavFormatIEEEFloat, 64>>,
     <<wavFormatALaw, 8>>, <<wavFormatMuLaw, 8>>}

\* the ends, the middle and the neighbourhood of 0 of a signed range of
\* half width h
SignedCodes(h) ==
    {-h, 1 - h, -(h \div 2) - 1, -(h \div 2), -129, -128, -3, -2, -1, 0, 1, 2, 3, 127, 128,
     (h \div 2) - 1, h \div 2, h - 2, h - 1}

\* 32-bit codes that float32 cannot hold exactly, next to the others
WideCodes ==
    SignedCodes(1073741824) \cup {k - 1073741824 - 1073741824 : k \in {0, 1, 63, 64, 65, 129}}
        \cup {1073741823 + 1073741824 - k : k \in {0, 1, 63, 64, 65, 129}}
        \cup {16777216, 16777217, 16777219, -16777217, 33554434, 33554438}

\* the stored codes of a pair: every byte, or signed integers of the width
CodesOf(pair) ==
    IF pair[2] = 8 THEN {<<c>> : c \in 0..255}
    ELSE IF pair[1] = wavFormatIEEEFloat THEN {}
    ELSE CASE pair[2] = 16 -> {LE16(n) : n \in SignedCodes(32768) \cup (-40..40)}
           [] pair[2] = 24 -> {Int32toInt24LEBytes(n) : n \in SignedCodes(8388608)}
           [] OTHER -> {LE32(n) : n \in WideCodes}

\* values n / 2^e of [-1, 1]: the ends, the middle, the neighbourhood of 0
ValueGrid(e) ==
    {<<n, e>> : n \in {-(2 ^ e), 1 - (2 ^ e), -(2 ^ (e - 1)) - 1, -(2 ^ (e - 1)), -5, -3, -2, -1, 0,
                       1, 2, 3, 5, 2 ^ (e - 1), (2 ^ (e - 1)) + 1, (2 ^ e) - 1, 2 ^ e}}

\* the values a pair is given: every one is a float32; the finest are left
\* to the formats that resolve them
ValuesOf(pair) ==
    ValueGrid(3) \cup ValueGrid(10) \cup ValueGrid(18) \cup {<<n, 15>> : n \in -40..40}
        \cup (IF pair[2] = 8 THEN {} ELSE ValueGrid(24) \cup {<<n, 30>> : n \in {-3, -1, 1, 3}})

\* an encoder of the pair; only its format fields are used
CodecEncoder(pair) == NewEncoder(TRUE, SampleRate8k, pair[2], 1, pair[1])

EncodeDecode(pair, x) ==
    Let(EncodeSample(CodecEncoder(pair), x), LAMBDA c :
        [op |-> "EncodeDecode", pair |-> pair, x |-> x, err |-> c.err, code |-> c.bytes,
         value |-> DecodeSampleBytes(c.bytes, pair[2], pair[1])])

DecodeEncodeDecode(pair, code) ==
    Let(DecodeSampleBytes(code, pair[2], pair[1]), LAMBDA v :
    Let(EncodeSample(CodecEncoder(pair), v), LAMBDA c :
        [op |-> "DecodeEncodeDecode", pair |-> pair, code |-> code, value |-> v, err |-> c.err,
         code2 |-> c.bytes, value2 |-> DecodeSampleBytes(c.bytes, pair[2], pair[1])]))

DoEncodeDecode ==
    /\ calc.op = "none"
    /\ \E pair \in CodecPairs : \E x \in ValuesOf(pair) : calc' = EncodeDecode(pair, x)
    /\ CalcOnly

DoDecodeEncodeDecode ==
    /\ calc.op = "none"
    /\ \E pair \in CodecPairs : \E code \in CodesOf(pair) : calc' = DecodeEncodeDecode(pair, code)
    /\ CalcOnly

CodecNext ==
    \/ DoEncodeDecode
    \/ DoDecodeEncodeDecode

SpecCodec == CalcInit /\ [][CodecNext]_vars

-----------------------------------------------------------------------------
(* Properties of the sample codecs                                         *)

Abs(n) == IF n < 0 THEN -n ELSE n

\* |v - x| <= steps / 2^k for quotients v, x of powers of two
DyadicWithin(v, x, steps, k) ==
    \/ Reduced(v) = Reduced(x)
    \/ Let(Max(Max(v[2], x[2]), k), LAMBDA E :
           Abs((v[1] * (2 ^ (E - v[2]))) - (x[1] * (2 ^ (E - x[2])))) <= steps * (2 ^ (E - k)))

\* the distance between neighbouring decoded values around a G.711 code,
\* in units of 1 / 32768
MuLawStep(code) == 8 * (2 ^ (((255 - code) \div 16) % 8))
ALawStep(code) ==
    Let((Xor(code, 85) \div 16) % 8, LAMBDA exponent :
        IF exponent <= 1 THEN 16 ELSE 16 * (2 ^ (exponent - 1)))

\* the decoded value is within one quantization step of x
WithinOneStep(c) ==
    CASE c.pair[1] = wavFormatIEEEFloat -> Reduced(c.value) = Reduced(c.x)
      [] c.pair[1] = wavFormatALaw -> DyadicWithin(c.value, c.x, ALawStep(c.code[1]), 15)
      [] c.pair[1] = wavFormatMuLaw -> DyadicWithin(c.value, c.x, MuLawStep(c.code[1]), 15)
      [] c.pair[2] = 8 ->
           Abs((c.value[1] * (2 ^ c.x[2])) - (255 * c.x[1])) <= 2 * (2 ^ c.x[2])
      [] OTHER -> DyadicWithin(c.value, c.x, 1, c.pair[2] - 1)

\* C21: for every supported pair, a value of [-1, 1] comes back from
\* encoding and decoding within one quantization step of the format, and
\* a stored code decodes to a value that encoding and decoding reproduce
C21_RoundTripWithinOneStep ==
    /\ calc.op = "EncodeDecode" => (calc.err = NoErr /\ WithinOneStep(calc))
    /\ calc.op = "DecodeEncodeDecode" =>
         (calc.err = NoErr /\ Reduced(calc.value2) = Reduced(calc.value))

\* the mu-law code of negative zero is re-encoded as the code of zero and
\* decodes to 0 both times; the largest 32-bit code decodes to 1.0, which
\* float32 rounds it to, both times
C21_Witness ==
    \/ /\ calc.op = "DecodeEncodeDecode"
       /\ calc.pair = <<wavFormatMuLaw, 8>>
       /\ calc.code = <<127>>
       /\ calc.code2 = <<255>>
       /\ calc.value = <<0, 15>>
       /\ calc.value2 = <<0, 15>>
    \/ /\ calc.op = "DecodeEncodeDecode"
       /\ calc.pair = <<wavFormatPCM, 32>>
       /\ calc.code = <<255, 255, 255, 127>>
       /\ Reduced(calc.value) = <<1, 0>>
       /\ calc.code2 = calc.code

-----------------------------------------------------------------------------
(* ChunkRegistry with registered handlers (chunk_registry.go).  A handler  *)
(* is its name, the identifier CanHandle accepts and the LIST type it      *)
(* asks for (Nil: any).                                                    *)

\* largest number of handlers added with Register
MaxRegistered == 2

Handler(name, id, listType) == [name |-> name, id |-> id, listType |-> listType]

newDefaultChunkRegistry ==
    <<Handler("fact", CIDFact, Nil), Handler("list", CIDList, Nil), Handler("smpl", CIDSmpl, Nil),
      Handler("cue", CIDCue, Nil), Handler("bext", CIDBext, Nil), Handler("cart", CIDCart, Nil)>>

\* handlers a caller registers: the LIST/INFO handler of the registry
\* tests, a handler for the xtra chunk, a second handler for fact
CustomHandlers ==
    {Handler("customList", CIDList, CIDInfo), Handler("customXtra", CIDXtra, Nil),
     Handler("customFact", CIDFact, Nil)}

\* ChunkRegistry.Register
Register(handlers, handler) == Append(handlers, handler)

CanHandle(h, chunkID, listType) ==
    chunkID = h.id /\ (h.listType = Nil \/ listType = h.listType)

\* the list type sniffListType returns: four zero bytes unless the chunk is
\* a LIST chunk of four bytes or more whose first four bytes could be read
SniffedType(f, ch) ==
    IF ch.ID # CIDList \/ ch.Size < 4 THEN <<0, 0, 0, 0>>
    ELSE Let(ChunkRReadFull(f, ch, 4), LAMBDA r :
             IF r.err # NoErr THEN <<0, 0, 0, 0>> ELSE r.data)

\* Decode of the handler h: a built-in one, or a registered one that reads
\* the chunk's reader to its end
DecodeBy(h, f, d, ch) ==
    CASE h.name = "fact" -> DecodeFactChunk(f, d, ch)
      [] h.name = "list" -> DecodeListChunk(f, d, ch)
      [] h.name \in {"smpl", "cue", "bext", "cart"} -> DecodeRecordChunk(f, d, ch)
      [] OTHER -> Let(ChunkReadAll(f, ch), LAMBDA r :
                      [d |-> d, err |-> NoErr, ch |-> [r.ch EXCEPT !.Pos = ch.Pos]])

\* the indices of the handlers that accept the chunk
Accepting(handlers, chunkID, listType) ==
    {i \in 1..Len(handlers) : CanHandle(handlers[i], chunkID, listType)}

FirstOf(S) == CHOOSE i \in S : \A j \in S : i <= j

\* ChunkRegistry.Decode over the handler list; invoked lists the handlers
\* whose Decode was called
ChunkRegistryDecode(handlers, f, d, ch) ==
    Let(sniffListType(f, ch), LAMBDA s :
        IF s.err # NoErr
        THEN [handled |-> FALSE, err |-> s.err, d |-> d, ch |-> s.ch, invoked |-> <<>>]
        ELSE Let(Accepting(handlers, ch.ID, SniffedType(f, ch)), LAMBDA acc :
             IF acc = {}
             THEN [handled |-> FALSE, err |-> NoErr, d |-> d, ch |-> s.ch, invoked |-> <<>>]
             ELSE Let(DecodeBy(handlers[FirstOf(acc)], f, d, s.ch), LAMBDA h :
                      [handled |-> TRUE,
                       err |-> IF h.err # NoErr THEN Wrapf("chunk handler decode failed", h.err)
                               ELSE NoErr,
                       d |-> h.d, ch |-> h.ch, invoked |-> <<FirstOf(acc)>>])))

\* the chunks handed to Decode: identifier, declared size, and the bytes
\* the stream holds for it (fewer than declared when the stream ends early)
RegistryChunks ==
    {[id |-> CIDFact, size |-> 4, bytes |-> LE32(320)],
     [id |-> CIDList, size |-> 14, bytes |-> ListInfo(<<97>>).data],
     [id |-> CIDList, size |-> 6, bytes |-> <<97, 100, 116, 108, 1, 2>>],
     [id |-> CIDList, size |-> 2, bytes |-> <<1, 2>>],
     [id |-> CIDList, size |-> 14, bytes |-> Take(ListInfo(<<97>>).data, 2)],
     [id |-> CIDSmpl, size |-> 2, bytes |-> <<1, 2>>],
     [id |-> CIDXtra, size |-> 2, bytes |-> PayloadBytes(2)],
     [id |-> CIDJunk, size |-> 0, bytes |-> <<>>]}
        \cup {[id |-> CIDJunk, size |-> WordAlign(n), bytes |-> PayloadBytes(WordAlign(n))] : n \in 1..MaxPayload}

RegistryInit ==
    /\ file = <<>>
    /\ dec = NewDecoder
    /\ ret = Result("NewDecoder", NoErr, 0)
    /\ streamed = <<>>
    /\ phase = "new"
    /\ enc = NoEncoder
    /\ eret = Result("none", NoErr, 0)
    /\ appended = 0
    /\ closed = 0
    /\ calls = 0
    /\ heap = NoHeap
    /\ calc \in {[op |-> "newDefaultChunkRegistry", handlers |-> newDefaultChunkRegistry, registered |-> 0],
                 [op |-> "ChunkRegistry{}", handlers |-> <<>>, registered |-> 0]}

DoRegister ==
    /\ calc.op # "Decode"
    /\ calc.registered < MaxRegistered
    /\ \E h \in CustomHandlers :
         calc' = [op |-> "Register", handlers |-> Register(calc.handlers, h),
                  registered |-> calc.registered + 1]
    /\ CalcOnly

\* Decode of a chunk as Decoder.NextChunk hands it out: file holds the bytes
\* of the stream from the chunk's payload on, the cursor is at its start
DoRegistryDecode ==
    /\ calc.op # "Decode"
    /\ \E c \in RegistryChunks :
        \E r \in {ChunkRegistryDecode(calc.handlers, c.bytes, dec, MkChunk(c.id, c.size, c.size, 0))} :
            /\ calc' = [op |-> "Decode", handlers |-> calc.handlers, registered |-> calc.registered,
                        chunk |-> c, handled |-> r.handled, err |-> r.err, invoked |-> r.invoked,
                        left |-> ChunkReadAll(c.bytes, r.ch).data]
            /\ file' = c.bytes
            /\ dec' = [r.d EXCEPT !.pos = r.ch.pos]
    /\ UNCHANGED <<ret, streamed, phase, enc, eret, appended, closed, calls, heap>>

RegistryNext ==
    \/ DoRegister
    \/ DoRegistryDecode

SpecRegistry == RegistryInit /\ [][RegistryNext]_vars

-----------------------------------------------------------------------------
(* Properties of the chunk registry                                        *)

\* the list type of a chunk as its payload gives it
ListTypeOf(c) ==
    IF c.id = CIDList /\ c.size >= 4 THEN PadTo(Take(c.bytes, 4), 4, <<0, 0, 0, 0>>) ELSE <<0, 0, 0, 0>>

\* C25: Decode invokes exactly one handler, the first in registration
\* order that accepts the chunk's identifier and list type; when none
\* accepts, it reports the chunk unhandled, with no error, and all the
\* payload the stream holds is still there to be read from the chunk
C25_FirstAcceptingHandlerOnly ==
    calc.op = "Decode" =>
        Let(Accepting(calc.handlers, calc.chunk.id, ListTypeOf(calc.chunk)), LAMBDA acc :
            IF acc # {}
            THEN calc.handled /\ calc.invoked = <<FirstOf(acc)>>
            ELSE ~calc.handled /\ calc.err = NoErr /\ calc.invoked = <<>>
                 /\ calc.left = calc.chunk.bytes)

\* the same, for the chunks whose list type could be read
RegistrySniffable(c) == ~(c.id = CIDList /\ c.size >= 4 /\ Len(c.bytes) < 4)

RegistryDispatchWhenSniffed ==
    (calc.op = "Decode" /\ RegistrySniffable(calc.chunk)) =>
        Let(Accepting(calc.handlers, calc.chunk.id, ListTypeOf(calc.chunk)), LAMBDA acc :
            IF acc # {}
            THEN calc.handled /\ calc.invoked = <<FirstOf(acc)>>
            ELSE ~calc.handled /\ calc.err = NoErr /\ calc.invoked = <<>>
                 /\ calc.left = calc.chunk.bytes)

-----------------------------------------------------------------------------
(* The layout of the encoder's output, its four flags and the recorded     *)
(* offset of the data chunk's size field                                   *)

\* the wire bytes of the chunks of one side, in slice order
RECURSIVE SideBytes(_, _)
SideBytes(chunks, beforeData) ==
    IF chunks = <<>> THEN <<>>
    ELSE (IF chunks[1].BeforeData = beforeData
          THEN writeTestChunk(chunks[1].ID, chunks[1].Data) ELSE <<>>)
         \o SideBytes(Tail(chunks), beforeData)

\* the offset just behind the fmt chunk of an output
FmtEnd(out) == 20 + SizeField(Slice(out, 16, 4))

\* the offset of the data chunk's tag, or of what follows the pre-data chunks
DataTagPos(e) == FmtEnd(e.out) + Len(SideBytes(e.UnknownChunks, TRUE))

\* the offset just behind the sample bytes
DataEndPos(e) == IF e.pcmChunkStarted THEN DataTagPos(e) + 8 + appended ELSE DataTagPos(e)

\* the offset just behind the post-data chunks
MetadataPos(e) == DataEndPos(e) + Len(SideBytes(e.UnknownChunks, FALSE))

\* header, fmt, pre-data chunks, data chunk, post-data chunks, metadata
\* LIST: each in its place, nothing between them and nothing after them
OutputLayout(e) ==
    /\ Slice(e.out, 0, 4) = RiffID
    /\ Slice(e.out, 8, 8) = WavFormatID \o FmtID
    /\ Slice(e.out, FmtEnd(e.out), DataTagPos(e) - FmtEnd(e.out)) = SideBytes(e.UnknownChunks, TRUE)
    /\ e.pcmChunkStarted =>
        /\ Slice(e.out, DataTagPos(e), 4) = DataFormatID
        /\ DataEndPos(e) <= Len(e.out)
    /\ Slice(e.out, DataEndPos(e), MetadataPos(e) - DataEndPos(e)) = SideBytes(e.UnknownChunks, FALSE)
    /\ IF e.Metadata = Nil THEN MetadataPos(e) = Len(e.out)
       ELSE /\ Slice(e.out, MetadataPos(e), 4) = CIDList
            /\ MetadataPos(e) + 8 + SizeField(Slice(e.out, MetadataPos(e) + 4, 4)) = Len(e.out)

\* the recorded offset points at the four bytes behind the tag "data"
SizeOffsetValid(e) ==
    IF e.pcmChunkStarted
    THEN /\ e.pcmChunkSizePos >= 4
         /\ e.pcmChunkSizePos + 4 <= Len(e.out)
         /\ Slice(e.out, e.pcmChunkSizePos - 4, 4) = DataFormatID
         /\ closed = 0 => Slice(e.out, e.pcmChunkSizePos, 4) = SizePlaceholder
    ELSE e.pcmChunkSizePos = 0

\* a flag that is set stays set
FlagsStaySet ==
    (enc # Nil /\ enc' # Nil) =>
        /\ enc.wroteHeader => enc'.wroteHeader
        /\ enc.wroteUnknownPre => enc'.wroteUnknownPre
        /\ enc.pcmChunkStarted => enc'.pcmChunkStarted
        /\ enc.wroteUnknownPost => enc'.wroteUnknownPost

\* C22: after the first successful Close of an encoder that wrote its header
\* the output holds the RIFF/WAVE header, the fmt chunk, the pre-data
\* chunks, the data chunk, the post-data chunks and the metadata LIST chunk
\* in this order and nothing else; each of the four flags, once true, stays
\* true; and from the start of the data chunk to that Close the recorded
\* offset is that of the four bytes behind the tag "data"
C22_LayoutFlagsAndOffset ==
    /\ []((FirstCloseDone /\ enc.wroteHeader) => OutputLayout(enc))
    /\ []((enc # Nil /\ enc.w /\ (closed = 0 \/ FirstCloseDone)) => SizeOffsetValid(enc))
    /\ [][FlagsStaySet]_vars

\* a closed session with chunks on both sides of samples and a metadata
\* LIST chunk behind them, all four flags set
C22_Witness ==
    /\ FirstCloseDone
    /\ enc.wroteHeader /\ enc.wroteUnknownPre /\ enc.pcmChunkStarted /\ enc.wroteUnknownPost
    /\ appended > 0
    /\ enc.Metadata # Nil
    /\ SideBytes(enc.UnknownChunks, TRUE) # <<>>
    /\ SideBytes(enc.UnknownChunks, FALSE) # <<>>
    /\ enc.pcmChunkSizePos = DataTagPos(enc) + 4

-----------------------------------------------------------------------------
(* Encoder sessions in which the caller replaces the chunk set at any      *)
(* point, and the chunks of the set held at Close in the output            *)

\* Encoder.SetRawChunks: a nil encoder is left alone, any other encoder
\* gets a copy of the chunks
SetRawChunks(e, chunks) ==
    IF e = Nil THEN e ELSE [e EXCEPT !.UnknownChunks = chunks]

DoSetRawChunks ==
    /\ calls < MaxCalls
    /\ \E chunks \in EncoderChunks :
        /\ enc' = SetRawChunks(enc, chunks)
        /\ eret' = Result("SetRawChunks", NoErr, 0)
        /\ calls' = calls + 1
        /\ UNCHANGED <<appended, closed>>
        /\ DecUnchanged

EncSetNext ==
    \/ DoWrite
    \/ DoWriteFrame
    \/ DoClose
    \/ DoSetRawChunks

SpecEncSet == EncInit /\ [][EncSetNext]_vars

\* the number of places of s at which the bytes b stand
Occurrences(s, b) ==
    Cardinality({off \in 0..(Len(s) - Len(b)) : Slice(s, off, Len(b)) = b})

\* the output in front of the tag of the data chunk, and the output behind
\* the sample bytes; an output without a data chunk has one side only
BeforeDataSide(e) ==
    IF e.pcmChunkStarted THEN Slice(e.out, 0, e.pcmChunkSizePos - 4) ELSE e.out
AfterDataSide(e) ==
    IF e.pcmChunkStarted
    THEN Slice(e.out, e.pcmChunkSizePos + 4 + appended, Len(e.out))
    ELSE e.out

\* the chunk stands once in the output, and on its side of the data chunk
WrittenOnceOnItsSide(e, chunk) ==
    /\ Occurrences(e.out, writeTestChunk(chunk.ID, chunk.Data)) = 1
    /\ Occurrences(IF chunk.BeforeData THEN BeforeDataSide(e) ELSE AfterDataSide(e),
                   writeTestChunk(chunk.ID, chunk.Data)) = 1

\* C29: after the first successful Close every chunk the encoder holds
\* stands exactly once in the output, on the side of the data chunk that its
\* BeforeData flag names, whenever the caller has set the chunks
C29_HeldChunksWrittenOnce ==
    FirstCloseDone =>
        \A i \in DOMAIN enc.UnknownChunks : WrittenOnceOnItsSide(enc, enc.UnknownChunks[i])

\* the same for the chunks that go behind the data chunk: Close writes them
HeldPostDataChunksWrittenOnce ==
    FirstCloseDone =>
        \A i \in DOMAIN enc.UnknownChunks :
            ~enc.UnknownChunks[i].BeforeData => WrittenOnceOnItsSide(enc, enc.UnknownChunks[i])

-----------------------------------------------------------------------------
(* The end of the audio data in a streaming session                        *)

\* the bytes the reader of the data chunk still lets through
BytesLeft(f, d) ==
    IF d.PCMChunk = Nil THEN 0 ELSE Max(0, Min(d.PCMChunk.lim, Len(f) - d.pos))

\* the GSM samples the session's block decoder can still deliver: none once
\* the fact count is reached, else its leftover and the whole blocks left
GsmSamplesLeft(f, d) ==
    Let(IF d.gsmDec = Nil THEN newGSMDecoder(d.CompressedSamples) ELSE d.gsmDec, LAMBDA g :
        IF g.factSamples > 0 /\ g.delivered >= g.factSamples THEN 0
        ELSE Max(0, Len(g.leftover) - g.leftoverPos)
                 + (BytesLeft(f, d) \div gsmBlockSize) * gsmSamplesPerBlock)

\* the samples a decode can still produce behind the cursor; the decode
\* function of uncompressed audio makes a sample of any bytes it gets
SamplesLeft(f, d) ==
    IF d.WavAudioFormat = wavFormatGSM610 THEN GsmSamplesLeft(f, d)
    ELSE (BytesLeft(f, d) + bytesPerSample(d.BitDepth) - 1) \div bytesPerSample(d.BitDepth)

\* the data chunk is located and nothing remains to be decoded from it
Exhausted(f, d) ==
    /\ d.pcmDataAccessed
    /\ d.PCMChunk # Nil
    /\ SamplesLeft(f, d) = 0

\* the count n of the decode loop of PCMBuffer over a batch of nbytes
\* bytes (nbytes > 0) for a buffer of size samples of bps bytes: one more
\* per successful decode, one less when the loop runs into the end of a
\* batch that is no multiple of bps
PCMBatchCount(nbytes, size, bps) ==
    Let(Min(size, (nbytes + bps - 1) \div bps), LAMBDA decoded :
        IF decoded < size /\ nbytes % bps > 0 THEN decoded - 1 ELSE decoded)

\* what PCMBuffer would return in this state for a buffer of size samples
\* is within the buffer, and for uncompressed audio it is the count of the
\* decode loop, which is not negative
CountWithinCapacity(f, d, size) ==
    /\ Len(PCMBuffer(f, d, size).data) <= size
    /\ (/\ d.pcmDataAccessed /\ d.PCMChunk # Nil
        /\ d.WavAudioFormat # wavFormatGSM610
        /\ sampleDecodeFloat32Func(d.BitDepth, d.WavAudioFormat).err = NoErr
        /\ BytesLeft(f, d) > 0)
       => Let(Min(size * bytesPerSample(d.BitDepth), BytesLeft(f, d)), LAMBDA nbytes :
              /\ PCMBatchCount(nbytes, size, bytesPerSample(d.BitDepth)) >= 0
              /\ PCMBatchCount(nbytes, size, bytesPerSample(d.BitDepth))
                     = Len(PCMBuffer(f, d, size).data))

\* a PCMBuffer call that returned 0 without an error has left nothing to decode
ZeroOnlyAtEnd ==
    (ret.op = "PCMBuffer" /\ ret.err = NoErr /\ ret.n = 0) => Exhausted(file, dec)

\* nothing but Rewind brings samples back, and while none are left
\* PCMBuffer returns 0
ZeroUntilRewind ==
    Exhausted(file, dec) =>
        /\ ret'.op # "Rewind" => Exhausted(file, dec')
        /\ ret'.op = "PCMBuffer" => ret'.n = 0

\* C23: PCMBuffer with a non-empty buffer returns 0 without an error only
\* when no whole sample remains to be decoded; from then on every PCMBuffer
\* call returns 0 until Rewind; the count a call returns is never negative
\* and never above the buffer's capacity
C23_ZeroOnlyAtEndAndUntilRewind ==
    /\ [](ZeroOnlyAtEnd)
    /\ [][ZeroUntilRewind]_vars
    /\ [](\A size \in SizesFor(file) : CountWithinCapacity(file, dec, size))

\* a streaming session that delivered samples, then got 0 from PCMBuffer,
\* and got 0 again from one more call
C23_Witness ==
    /\ ret.op = "PCMBuffer" /\ ret.err = NoErr /\ ret.n = 0
    /\ phase = "other"
    /\ Len(streamed) > 0
    /\ Exhausted(file, dec)

-----------------------------------------------------------------------------
(* The number of samples a streaming session delivers                      *)

\* the offset of the data chunk's header in a container, -1 if it has none
DataChunkOffset(f) == FindChunk(f, 12, DataFormatID)

\* the size the data chunk declares
DeclaredDataSize(f) == LEVal(Slice(f, DataChunkOffset(f) + 4, 4))

\* the container holds the whole data chunk, pad byte included
DataChunkComplete(f) ==
    /\ DataChunkOffset(f) >= 0
    /\ DataChunkOffset(f) + 8 + WordAlign(DeclaredDataSize(f)) <= Len(f)

\* a streaming session over the complete data chunk of uncompressed audio
\* has come to the call that returned 0
StreamedToEnd ==
    /\ phase = "end"
    /\ dec.WavAudioFormat = wavFormatPCM
    /\ DataChunkComplete(file)

\* C24: for uncompressed audio the counts of the PCMBuffer calls up to the
\* first 0 add up to the declared size of the data chunk divided by the
\* bytes per sample, rounded down, whatever the buffer sizes: neither a
\* trailing partial sample nor the pad byte counts as a sample
C24_StreamedCountIsDeclaredSamples ==
    StreamedToEnd =>
        Len(streamed) = DeclaredDataSize(file) \div bytesPerSample(dec.BitDepth)

\* the same for data chunks of an even number of bytes that are whole samples
StreamedCountOfWholeSamples ==
    (/\ StreamedToEnd
     /\ DeclaredDataSize(file) % 2 = 0
     /\ DeclaredDataSize(file) % bytesPerSample(dec.BitDepth) = 0)
    => Len(streamed) = DeclaredDataSize(file) \div bytesPerSample(dec.BitDepth)

\* sessions of the second kind that delivered samples
StreamedWholeSamples ==
    /\ StreamedToEnd
    /\ DeclaredDataSize(file) % 2 = 0
    /\ DeclaredDataSize(file) % bytesPerSample(dec.BitDepth) = 0
    /\ Len(streamed) >= 2

-----------------------------------------------------------------------------
(* Containers in which other chunks come before the fmt chunk              *)

\* RIFF header, the chunks in front of the fmt chunk, the fmt chunk, the
\* data chunk, the chunks behind it
makeWavFmtLate(early, fmtp, data, post) ==
    LET body == WavFormatID \o writeTestChunks(early) \o writeTestChunk(FmtID, fmtp)
                  \o writeTestChunk(DataFormatID, data) \o writeTestChunks(post)
    IN  RiffID \o LE32(Len(body)) \o body

\* an unknown chunk, a chunk the header walk hands to the registry, or both
\* in front of the fmt chunk
ContainersFmtLate ==
    {makeWavFmtLate(<<Junk(n)>>, PCM16Fmt, AudioBytes(4), post) :
        n \in PayloadLens, post \in {<<>>, <<Xtra(2)>>}}
    \cup {makeWavFmtLate(<<ListInfo(<<97>>)>>, PCM16Fmt, AudioBytes(2), <<>>),
          makeWavFmtLate(<<Junk(2), Xtra(1)>>, PCM8Fmt, AudioBytes(2), <<Xtra(2)>>)}

InitFmtLate ==
    /\ file \in ContainersFmtLate
    /\ dec = NewDecoder
    /\ ret = Result("NewDecoder", NoErr, 0)
    /\ streamed = <<>>
    /\ phase = "new"
    /\ enc = NoEncoder
    /\ eret = Result("none", NoErr, 0)
    /\ appended = 0
    /\ closed = 0
    /\ calls = 0
    /\ heap = NoHeap
    /\ calc = NoCalc

SpecFmtLate == InitFmtLate /\ [][Next]_vars

\* the offsets of the chunk headers of a container, and its end
RECURSIVE ChunkBoundariesFrom(_, _)
ChunkBoundariesFrom(f, off) ==
    IF off + 8 > Len(f) THEN {off}
    ELSE {off} \cup ChunkBoundariesFrom(f, off + 8 + WordAlign(LEVal(Slice(f, off + 4, 4))))

ChunkBoundaries(f) == ChunkBoundariesFrom(f, 12)

\* the first header parsing of a session has left the cursor in front of a
\* chunk header
CursorOnBoundaryAfterHeaders ==
    (ret.op = "NewDecoder" /\ ret'.op = "ReadInfo" /\ ret'.err = NoErr)
        => dec'.pos \in ChunkBoundaries(file)

\* no preserved chunk is the fmt chunk or the data chunk
NoCoreChunkPreserved(d) ==
    \A i \in DOMAIN d.UnknownChunks : d.UnknownChunks[i].ID \notin {FmtID, DataFormatID}

\* C28: header parsing leaves the cursor on a chunk-header boundary, and
\* after ReadMetadata no preserved RawChunk has the identifier "fmt " or
\* "data", also when other chunks come before the fmt chunk
C28_FmtAndDataNeverPreserved ==
    /\ [][CursorOnBoundaryAfterHeaders]_vars
    /\ [](ret.op = "ReadMetadata" => NoCoreChunkPreserved(dec))

\* the cursor part on its own
CursorOnBoundaryAlways == [][CursorOnBoundaryAfterHeaders]_vars

-----------------------------------------------------------------------------
(* Sessions over GSM containers with a fact chunk, in which PCMBuffer and  *)
(* FullPCMBuffer calls alternate; streamed holds every sample the session  *)
(* has delivered since the last Rewind                                     *)

ContainersGSMFact ==
    {makeWav(RiffID, fmtPayloadGSM, <<Fact(n)>>, GsmBlocks(nb, 0), <<>>, 0) :
        n \in FactCounts, nb \in 1..2}

InitGsmSession ==
    /\ file \in ContainersGSMFact
    /\ dec = NewDecoder
    /\ ret = Result("NewDecoder", NoErr, 0)
    /\ streamed = <<>>
    /\ phase = "new"
    /\ enc = NoEncoder
    /\ eret = Result("none", NoErr, 0)
    /\ appended = 0
    /\ closed = 0
    /\ calls = 0
    /\ heap = NoHeap
    /\ calc = NoCalc

\* buffers of less than a block, of more than a block, of more than the audio
GsmSessionBufSizes == {120, 200, 400, 1024}

DoSessionPCMBuffer ==
    \E size \in GsmSessionBufSizes :
        \E r \in {PCMBuffer(file, dec, size)} :
            /\ dec' = r.d
            /\ ret' = Result("PCMBuffer", r.err, Len(r.data))
            /\ streamed' = streamed \o r.data
            /\ UNCHANGED <<file, phase>>
            /\ EncUnchanged

DoSessionFullPCMBuffer ==
    \E r \in {FullPCMBuffer(file, dec)} :
        /\ dec' = r.d
        /\ ret' = Result("FullPCMBuffer", r.err, Len(r.data))
        /\ streamed' = streamed \o r.data
        /\ UNCHANGED <<file, phase>>
        /\ EncUnchanged

DoSessionRewind ==
    \E r \in {Rewind(file, dec)} :
        /\ dec' = r.d
        /\ ret' = Result("Rewind", r.err, 0)
        /\ streamed' = <<>>
        /\ UNCHANGED <<file, phase>>
        /\ EncUnchanged

GsmSessionNext ==
    \/ DoSessionPCMBuffer
    \/ DoSessionFullPCMBuffer
    \/ DoSessionRewind

SpecGsmSession == InitGsmSession /\ [][GsmSessionNext]_vars

\* the sample count the fact chunk of a container declares
FactSamplesOf(f) == LEVal(Slice(f, FindChunk(f, 12, CIDFact) + 8, 4))

\* the samples of the container in stream order, cut at the declared count
GsmReference(f) == FullPCMBuffer(f, NewDecoder).data

\* C30: what a session over a GSM container with a fact chunk of F > 0
\* samples delivers between two Rewinds, through PCMBuffer calls with any
\* buffer sizes and FullPCMBuffer calls in any order, is at most F samples,
\* and they are the first samples of the stream in order, none skipped and
\* none repeated
C30_GsmSessionWithinFact ==
    /\ Len(streamed) <= FactSamplesOf(file)
    /\ streamed = Take(GsmReference(file), Len(streamed))

\* a PCMBuffer call that does not follow a FullPCMBuffer call keeps a
\* session within the declared count and in stream order
GsmSessionOneMode ==
    [][(ret.op # "FullPCMBuffer" /\ ret'.op = "PCMBuffer" /\ dec.gsmDec # Nil
        /\ Len(streamed) <= FactSamplesOf(file)
        /\ streamed = Take(GsmReference(file), Len(streamed)))
       => (/\ Len(streamed') <= FactSamplesOf(file)
           /\ streamed' = Take(GsmReference(file), Len(streamed')))]_vars

====
